---- MODULE Spec2Model ----
(***************************************************************************)
(* The four POST handler variants of the agoda-wp-automation repository:   *)
(*   route1 : src/app/api/wp/post/route.ts, first POST   (lines 6-68)      *)
(*   route2 : src/app/api/wp/post/route.ts, second POST  (lines 920-1078)  *)
(*   part0  : src/unnamed/part_000 POST                  (lines 356-468)   *)
(*   part1  : src/unnamed/part_001 POST                  (lines 507-637)   *)
(* One request is followed from its arrival to its response.  Every await  *)
(* of the handler is a program point (pc); the outcome of an outbound call *)
(* is chosen when the call returns.                                        *)
(***************************************************************************)
EXTENDS Integers, Sequences, FiniteSets, TLC

\* ------------------------------------------------------------------ bounds
MaxMissing == 1     \* required settings missing or malformed at once
MaxDay     == 0     \* server dates 0..MaxDay

\* ------------------------------------------------------------ value sets
Handlers == {"route1", "route2", "part0", "part1"}

Headers == {"none", "k1", "k2"}            \* x-api-key: absent, two values

\* process.env: "" is an unset or empty variable
EnvVars ==
  {"API_KEY", "AGODA_SITE_ID", "AGODA_API_KEY", "AGODA_AUTH", "AGODA_CID",
   "WP_URL", "WP_USERNAME", "WP_APP_PASSWORD"}

EnvValues(v) ==
  CASE v = "API_KEY"    -> {"", "k1"}
    [] v = "AGODA_AUTH" -> {"", "nocolon", "site:key"}
    [] OTHER            -> {"", "set"}

EnvGood(v) ==
  CASE v = "API_KEY"    -> "k1"
    [] v = "AGODA_AUTH" -> "site:key"
    [] OTHER            -> "set"

\* the settings each handler reads
EnvReads(h) ==
  CASE h = "route1" -> {"API_KEY", "AGODA_SITE_ID", "AGODA_API_KEY",
                        "WP_URL", "WP_USERNAME", "WP_APP_PASSWORD"}
    [] h = "route2" -> {"API_KEY", "AGODA_AUTH", "AGODA_CID",
                        "WP_URL", "WP_USERNAME", "WP_APP_PASSWORD"}
    [] h = "part0"  -> {"API_KEY", "AGODA_SITE_ID", "AGODA_API_KEY",
                        "WP_URL", "WP_USERNAME", "WP_APP_PASSWORD"}
    [] h = "part1"  -> {"API_KEY", "AGODA_CID",
                        "WP_URL", "WP_USERNAME", "WP_APP_PASSWORD"}

Envs(h) ==
  {e \in [EnvVars -> {"", "k1", "nocolon", "site:key", "set"}] :
     /\ \A v \in EnvVars : e[v] \in EnvValues(v)
     /\ \A v \in EnvVars \ EnvReads(h) : e[v] = EnvGood(v)
     /\ Cardinality({v \in EnvVars \ {"API_KEY"} : e[v] # EnvGood(v)}) <= MaxMissing}

\* the server clock: local date and hour, and the zone's offset from UTC
Hours     == {8, 22}
TzOffsets == {0, 9}
Clocks    == [day : 0..MaxDay, hour : Hours, tz : TzOffsets]
NoClock   == [day |-> -1, hour |-> -1, tz |-> 0]

\* an instant in UTC, as an ISO datetime names it
NoDate      == [day |-> -1, hour |-> -1]
SuppliedISO == [day |-> 7, hour |-> 12]

PublishInputs == {"absent", "draft", "publish", "future", "FUTURE", "pending"}
Categories    == {"absent", "5", "abc"}

\* the request body as the handlers read it
EmptyBody ==
  [read |-> TRUE, ok |-> TRUE, keyword |-> "absent", alias |-> FALSE,
   hotelId |-> "", hotelUrl |-> "", cityId |-> FALSE,
   publishType |-> "absent", status |-> "absent", publishAt |-> NoDate,
   category |-> "absent"]

NoBody        == [EmptyBody EXCEPT !.read = FALSE]
MalformedBody == [EmptyBody EXCEPT !.ok = FALSE]

Keywords  == {"absent", "blank", "text"}
HotelIds  == {"", "222"}
HotelUrls == {"", "nohid", "hid=111"}

\* the fields each handler reads from the body (the others stay absent)
Bodies(h) ==
  {MalformedBody} \cup
  CASE h = "route1" ->
         {[EmptyBody EXCEPT !.keyword = k, !.hotelId = i, !.publishType = p,
                            !.category = c] :
            k \in Keywords, i \in HotelIds, p \in PublishInputs, c \in Categories}
    [] h = "route2" ->
         {[EmptyBody EXCEPT !.keyword = kiu[1], !.hotelId = kiu[2],
                            !.hotelUrl = kiu[3], !.publishType = p,
                            !.publishAt = d, !.category = c] :
            kiu \in Keywords \X HotelIds \X HotelUrls, p \in PublishInputs,
            d \in {NoDate, SuppliedISO}, c \in Categories}
    [] h = "part0" ->
         {[EmptyBody EXCEPT !.keyword = kai[1], !.alias = kai[2],
                            !.hotelId = kai[3], !.cityId = kai[4],
                            !.publishType = ps[1], !.status = ps[2],
                            !.publishAt = d, !.category = c] :
            kai \in Keywords \X BOOLEAN \X HotelIds \X BOOLEAN,
            ps \in PublishInputs \X {"absent", "publish"},
            d \in {NoDate, SuppliedISO}, c \in {"absent", "5"}}
    [] h = "part1" ->
         {[EmptyBody EXCEPT !.keyword = kiu[1], !.hotelId = kiu[2],
                            !.hotelUrl = kiu[3], !.publishType = p,
                            !.publishAt = d, !.category = c] :
            kiu \in Keywords \X HotelIds \X HotelUrls, p \in PublishInputs,
            d \in {NoDate, SuppliedISO}, c \in Categories}

\* ------------------------------------------------------------------ state
VARIABLES
  handler,   \* which variant serves the request
  env,       \* process.env
  header,    \* the request's x-api-key header
  body,      \* the request body, once req.json() has read it
  now,       \* the server clock as the request read it (NoClock: not read)
  pc,        \* the await the handler is suspended at
  hid,       \* the hotel id the handler resolved ("" if none)
  tries,     \* search pages requested by resolveHotelIdFromKeyword
  calls,     \* the outbound HTTP requests issued, in order
  replies,   \* the outcomes of the requests that have returned, in order
  created,   \* posts the publishing platform created for this request
  hotel,     \* the affiliate API's answer the handler kept ("" if none)
  catId,     \* part_000: the category id ensureCategoryId returned (0: null)
  mediaId,   \* part_000: the media id uploadFeaturedImage returned (0: null)
  resp,      \* the response ([status |-> 0]: none yet)
  args,      \* the inputs of the document builder under study (NoArgs: none)
  html,      \* the documents the builder returned for args, in order
  wp,        \* the publishing platform's categories and posts
  cc,        \* concurrent part_000 requests: their await, category name, id
  input,     \* the arguments of the function under study (NoInput: none)
  output     \* what the function returned for input

\* the state of the single request
reqVars ==
  <<handler, env, header, body, now, pc, hid, tries, calls, replies, created,
    hotel, catId, mediaId, resp, args, html>>

vars == <<reqVars, wp, cc, input, output>>

\* no concurrent requests and no function are under study
NoWp    == [cats |-> {}, posts |-> <<>>]
NoProcs == <<>>
NoInput == <<>>

NoResp == [status |-> 0, error |-> "", upstream |-> 0, missing |-> <<>>]

Response(status, error, upstream) ==
  [status |-> status, error |-> error, upstream |-> upstream, missing |-> <<>>]

\* an exception no try block of the handler catches
Unhandled == Response(500, "unhandled exception", 0)

\* an outbound HTTP request; status, date, cat, media describe the body of a
\* post-creation request (cat: 0 no categories field, -1 a NaN entry;
\* media: 0 no featured_media field); page is the query parameter that
\* carries the keyword in a request for a search page
Call(to) ==
  [to |-> to, status |-> "", date |-> NoDate, cat |-> 0, media |-> 0,
   page |-> ""]

PostCall(status, date, cat) ==
  [to |-> "wp_post", status |-> status, date |-> date, cat |-> cat, media |-> 0,
   page |-> ""]

\* no document builder is under study
NoArgs == [version |-> "", keyword |-> "", hotelId |-> "", hotelName |-> "",
           name |-> "", landingURL |-> "", imageURL |-> ""]

Init ==
  /\ handler \in Handlers
  /\ env \in Envs(handler)
  /\ header \in Headers
  /\ body = NoBody
  /\ now = NoClock
  /\ pc = "start"
  /\ hid = ""
  /\ tries = 0
  /\ calls = <<>>
  /\ replies = <<>>
  /\ created = 0
  /\ hotel = ""
  /\ catId = 0
  /\ mediaId = 0
  /\ resp = NoResp
  /\ args = NoArgs
  /\ html = <<>>
  /\ wp = NoWp
  /\ cc = NoProcs
  /\ input = NoInput
  /\ output = NoInput

\* return a response: the handler is finished
Reply(r) ==
  /\ resp' = r
  /\ pc' = "done"

\* issue an outbound request and suspend at the await
Fetch(c, next) ==
  /\ calls' = Append(calls, c)
  /\ pc' = next
  /\ resp' = resp

\* --------------------------------------------------------- pure helpers
NaN == -1

\* Number(v) of a category value of the body
ToNumber(c) == IF c = "5" THEN 5 ELSE IF c = "absent" THEN 0 ELSE NaN

\* String(v).toLowerCase().trim() on the publish-type inputs
ToLowerTrim(v) == IF v = "FUTURE" THEN "future" ELSE v

\* the status of an upstream response
HttpStatus(o) ==
  CASE o = "ok"      -> 200
    [] o = "empty"   -> 200
    [] o = "found"   -> 200
    [] o = "noid"    -> 200
    [] o = "fail500" -> 500
    [] o = "fail429" -> 429
    [] o = "fail403" -> 403
    [] OTHER         -> 0

AgodaOutcomes == {"ok", "empty", "fail500", "fail429", "neterr"}
WpOutcomes    == {"ok", "fail403", "neterr"}

\* Date arithmetic on the local clock
SetDate(c, d)  == [c EXCEPT !.day = d]
SetHours(c, h) == [c EXCEPT !.hour = h]

\* Date.prototype.toISOString: the instant in UTC
ToISOString(c) ==
  IF c.hour - c.tz < 0
    THEN [day |-> c.day - 1, hour |-> c.hour - c.tz + 24]
    ELSE [day |-> c.day, hour |-> c.hour - c.tz]

\* an ISO instant read back in the server's zone
LocalTime(iso, tz) ==
  IF iso.hour + tz >= 24
    THEN [day |-> iso.day + 1, hour |-> iso.hour + tz - 24]
    ELSE [day |-> iso.day, hour |-> iso.hour + tz]

\* the first WP_* setting that is missing ("" if none)
WpMissingEnv(e) ==
  IF e["WP_URL"] = "" THEN "WP_URL"
  ELSE IF e["WP_USERNAME"] = "" THEN "WP_USERNAME"
  ELSE IF e["WP_APP_PASSWORD"] = "" THEN "WP_APP_PASSWORD"
  ELSE ""

\* ================================================= route.ts, first POST
\* agodaGetHotelById (lines 74-147): the setting it throws on, "" if none
R1_agodaMissingEnv(e) ==
  IF e["AGODA_SITE_ID"] = "" THEN "AGODA_SITE_ID"
  ELSE IF e["AGODA_API_KEY"] = "" THEN "AGODA_API_KEY"
  ELSE ""

\* agodaGetHotelById without the check of its results list (lines 139-142)
R1_agodaFailure_noEmptyCheck(o) ==
  IF o = "neterr" THEN Response(502, "fetch failed", 0)
  ELSE IF HttpStatus(o) # 200 THEN Response(502, "Agoda API failed", HttpStatus(o))
  ELSE NoResp

\* agodaGetHotelById, lines 104-144, and the catch of lines 58-66: the error
\* response an outcome of the affiliate API leads to (NoResp: none)
R1_agodaFailure(o) ==
  IF o = "neterr" THEN Response(502, "fetch failed", 0)
  ELSE IF HttpStatus(o) # 200 THEN Response(502, "Agoda API failed", HttpStatus(o))
  ELSE IF o = "empty" THEN Response(502, "Agoda fetch failed: no results", 0)
  ELSE NoResp

\* publishToWordPress, lines 305-306
R1_status(publishType) ==
  IF publishType = "publish" THEN "publish"
  ELSE IF publishType = "future" THEN "future"
  ELSE "draft"

\* publishToWordPress: the body of the post-creation request
R1_publishBody(b) ==
  PostCall(R1_status(IF b.publishType = "absent" THEN "draft" ELSE b.publishType),
           NoDate,
           IF b.category = "absent" THEN 1 ELSE ToNumber(b.category))

\* the check without its comparison with API_KEY
R1_Unauthorized_absentOnly(h, e) == h = "none"

\* lines 9-12
R1_Unauthorized(h, e) == h = "none" \/ h # e["API_KEY"]

R1_Start ==
  /\ handler = "route1" /\ pc = "start"
  /\ replies' = replies
  /\ IF R1_Unauthorized(header, env)
       THEN Reply(Response(401, "Unauthorized", 0))
       ELSE /\ pc' = "r1_json"
            /\ resp' = resp
  /\ UNCHANGED <<wp, cc, input, output, args, html, handler, env, header, body, now, hid, tries, calls, created, hotel, catId, mediaId>>

\* lines 15-34 and agodaGetHotelById up to its fetch
R1_Json(b) ==
  /\ handler = "route1" /\ pc = "r1_json"
  /\ replies' = replies
  /\ body' = b
  /\ IF ~b.ok
       THEN Reply(Response(502, "Unexpected token", 0)) /\ UNCHANGED <<hid, calls>>
     ELSE IF b.hotelId = ""
       THEN Reply(Response(400, "hotelId is required", 0)) /\ UNCHANGED <<hid, calls>>
     ELSE IF R1_agodaMissingEnv(env) # ""
       THEN Reply(Response(502, "Missing env: " \o R1_agodaMissingEnv(env), 0))
            /\ UNCHANGED <<hid, calls>>
     ELSE Fetch(Call("agoda"), "r1_agoda") /\ hid' = b.hotelId
  /\ UNCHANGED <<wp, cc, input, output, args, html, handler, env, header, now, tries, created, hotel, catId, mediaId>>

\* agodaGetHotelById after its fetch, then lines 35-55 and publishToWordPress
R1_AgodaReturn(o) ==
  /\ handler = "route1" /\ pc = "r1_agoda"
  /\ replies' = Append(replies, o)
  /\ IF R1_agodaFailure(o) # NoResp
       THEN Reply(R1_agodaFailure(o)) /\ calls' = calls
     ELSE IF WpMissingEnv(env) # ""
       THEN Reply(Response(502, "Missing env: " \o WpMissingEnv(env), 0))
            /\ calls' = calls
     ELSE Fetch(R1_publishBody(body), "r1_wp")
  /\ UNCHANGED <<wp, cc, input, output, args, html, handler, env, header, body, now, hid, tries, created, hotel, catId, mediaId>>

\* publishToWordPress after its fetch, lines 324-336 and 57-67
R1_WpReturn(o) ==
  /\ handler = "route1" /\ pc = "r1_wp"
  /\ replies' = Append(replies, o)
  /\ IF o = "ok"
       THEN Reply(Response(200, "", 0)) /\ created' = created + 1
     ELSE IF o = "neterr"
       THEN Reply(Response(502, "fetch failed", 0)) /\ created' = created
     ELSE Reply(Response(502, "WordPress publish failed", HttpStatus(o)))
          /\ created' = created
  /\ calls' = calls
  /\ UNCHANGED <<wp, cc, input, output, args, html, handler, env, header, body, now, hid, tries, hotel, catId, mediaId>>

\* ================================================ src/unnamed/part_001
\* normalizePublishType, lines 33-38
P1_normalizePublishType(v) ==
  LET s == ToLowerTrim(v) IN
    IF s = "publish" THEN "publish"
    ELSE IF s = "future" THEN "future"
    ELSE "draft"

\* extractHidFromHotelUrl, lines 69-77
P1_extractHidFromHotelUrl(u) == IF u = "hid=111" THEN "111" ELSE ""

\* wpCreatePost, lines 445-446
P1_finalStatus(status) ==
  IF status = "publish" \/ status = "future" THEN status ELSE "draft"

\* wpCreatePost, lines 471-481: the date field (NoDate: no field)
P1_postDate(finalStatus, publishAt, clock) ==
  IF finalStatus = "future"
    THEN IF publishAt = NoDate
           THEN ToISOString(SetHours(SetDate(clock, clock.day + 1), 9))
           ELSE publishAt
    ELSE NoDate

\* the publishAt argument POST hands to wpCreatePost (lines 604-614): none
P1_publishAtArg(b) == NoDate

\* wpCreatePost: the body of the post-creation request
P1_postBody(b, clock) ==
  LET finalStatus == P1_finalStatus(P1_normalizePublishType(b.publishType)) IN
    PostCall(finalStatus,
             P1_postDate(finalStatus, P1_publishAtArg(b), clock),
             IF b.category = "absent" THEN 1 ELSE ToNumber(b.category))

\* lines 510-514
P1_Unauthorized(h, e) ==
  e["API_KEY"] # "" /\ (IF h = "none" THEN "" ELSE h) # e["API_KEY"]

\* the keyword without its trim()
P1_keyword_untrimmed(b) == IF b.keyword = "absent" THEN "" ELSE "text"

\* line 518: String(body.keyword || "").trim()
P1_keyword(b) == IF b.keyword = "text" THEN "text" ELSE ""

\* a hotel id that falls back to a fixed one
P1_hotelId_fallback(b) ==
  IF b.hotelId # "" THEN b.hotelId
  ELSE IF P1_extractHidFromHotelUrl(b.hotelUrl) # ""
    THEN P1_extractHidFromHotelUrl(b.hotelUrl)
  ELSE "625168"

\* lines 544-547
P1_hotelId(b) ==
  IF b.hotelId # "" THEN b.hotelId ELSE P1_extractHidFromHotelUrl(b.hotelUrl)

P1_Start ==
  /\ handler = "part1" /\ pc = "start"
  /\ replies' = replies
  /\ IF P1_Unauthorized(header, env)
       THEN Reply(Response(401, "Unauthorized: invalid x-api-key", 0))
       ELSE /\ pc' = "p1_json"
            /\ resp' = resp
  /\ UNCHANGED <<wp, cc, input, output, args, html, handler, env, header, body, now, hid, tries, calls, created, hotel, catId, mediaId>>

\* lines 516-614 and wpCreatePost up to its fetch
P1_Json(b, clock) ==
  /\ handler = "part1" /\ pc = "p1_json"
  /\ replies' = replies
  /\ body' = b
  /\ IF P1_keyword(b) = ""
       THEN Reply(Response(400, "keyword is required", 0))
            /\ UNCHANGED <<hid, calls, now>>
     ELSE /\ now' = clock
          /\ IF P1_hotelId(b) = ""
               THEN Reply(Response(400, "hotelId or hotelUrl required", 0))
                    /\ UNCHANGED <<hid, calls>>
             ELSE /\ hid' = P1_hotelId(b)
                  /\ IF WpMissingEnv(env) # ""
                       THEN Reply(Response(500, "Missing env: " \o WpMissingEnv(env), 0))
                            /\ calls' = calls
                       ELSE Fetch(P1_postBody(b, clock), "p1_wp")
  /\ UNCHANGED <<wp, cc, input, output, args, html, handler, env, header, tries, created, hotel, catId, mediaId>>

\* a check of the answer that accepts status 200 only, while the platform
\* answers a creation with 201
P1_wpResponse_only200(o) ==
  IF o = "ok" THEN Response(500, "WP API failed", 201)
  ELSE IF o = "neterr" THEN Response(500, "fetch failed", 0)
  ELSE Response(500, "WP API failed", HttpStatus(o))

\* wpCreatePost after its fetch, lines 493-500, then lines 617-636: the
\* response an outcome of the post-creation call leads to
P1_wpResponse(o) ==
  IF o = "ok" THEN Response(200, "", 0)
  ELSE IF o = "neterr" THEN Response(500, "fetch failed", 0)
  ELSE Response(500, "WP API failed", HttpStatus(o))

\* wpCreatePost after its fetch, lines 493-500 and 616-636
P1_WpReturn(o) ==
  /\ handler = "part1" /\ pc = "p1_wp"
  /\ replies' = Append(replies, o)
  /\ Reply(P1_wpResponse(o))
  /\ created' = IF o = "ok" THEN created + 1 ELSE created
  /\ calls' = calls
  /\ UNCHANGED <<wp, cc, input, output, args, html, handler, env, header, body, now, hid, tries, hotel, catId, mediaId>>

\* =============================================== route.ts, second POST
\* a normaliser whose fallback is "publish"
R2_normalizePublishType_publish(v) ==
  IF v = "publish" \/ v = "future" \/ v = "draft" THEN v ELSE "publish"

\* normalizePublishType, lines 387-390
R2_normalizePublishType(v) ==
  IF v = "publish" \/ v = "future" \/ v = "draft" THEN v ELSE "draft"

\* getAgodaAuthFromEnv, lines 418-430: the error it throws, "" if none
R2_getAgodaAuthError(e) ==
  IF e["AGODA_AUTH"] = "" THEN "Missing env: AGODA_AUTH"
  ELSE IF e["AGODA_AUTH"] = "nocolon" THEN "Invalid AGODA_AUTH format"
  ELSE ""

\* extractHotelIdFromUrl, lines 435-446 ("" is null)
R2_extractHotelIdFromUrl(u) == IF u = "hid=111" THEN "111" ELSE ""

\* safeStr (lines 383-385) of body.keyword, line 934
R2_keyword(b) == IF b.keyword = "text" THEN "text" ELSE ""

\* the priority hotelId, then hotelUrl
R2_hotelId_idFirst(b) ==
  IF b.hotelId # "" THEN b.hotelId ELSE R2_extractHotelIdFromUrl(b.hotelUrl)

\* lines 958-962: hotelUrl, then hotelId
R2_hotelId(b) ==
  IF R2_extractHotelIdFromUrl(b.hotelUrl) # ""
    THEN R2_extractHotelIdFromUrl(b.hotelUrl)
    ELSE b.hotelId

\* line 939: Number(body.category ?? 1)
R2_category(b) == IF b.category = "absent" THEN 1 ELSE ToNumber(b.category)

\* wpCreatePost, lines 880-890: the date field (NoDate: no field)
R2_postDate(status, publishAt, clock) ==
  IF status = "future"
    THEN IF publishAt = NoDate
           THEN ToISOString(SetHours(SetDate(clock, clock.day + 1), 9))
           ELSE publishAt
    ELSE NoDate

\* the publishAt argument POST hands to wpCreatePost, line 1049
R2_publishAtArg(b) == b.publishAt

\* wpCreatePost, lines 859-890: the body of the post-creation request
R2_postBody(b, clock) ==
  LET status == R2_normalizePublishType(b.publishType) IN
    PostCall(status, R2_postDate(status, R2_publishAtArg(b), clock), R2_category(b))

\* the lookup without its res.ok check: a failure reads as an empty result
R2_agodaFailure_noOkCheck(o) ==
  IF o = "neterr" THEN Response(502, "fetch failed", 0)
  ELSE IF o # "ok" THEN Response(502, "Agoda fetch failed: no results", 0)
  ELSE NoResp

\* agodaGetHotelById (lines 513-536), lines 985-988 and the catch of lines
\* 1074-1077: the error response an outcome of the affiliate API leads to
R2_agodaFailure(o) ==
  IF o = "neterr" THEN Response(502, "fetch failed", 0)
  ELSE IF HttpStatus(o) # 200 THEN Response(502, "Agoda API failed", HttpStatus(o))
  ELSE IF o = "empty" THEN Response(502, "Agoda fetch failed: no results", 0)
  ELSE NoResp

\* the clock does not run backwards within a request
LaterClocks(c) ==
  IF c = NoClock THEN Clocks
  ELSE {d \in Clocks : d.tz = c.tz
                       /\ (d.day > c.day \/ (d.day = c.day /\ d.hour >= c.hour))}

\* wpCreatePost reads the clock only for a future post without publishAt
R2_readsClock(b) ==
  R2_normalizePublishType(b.publishType) = "future" /\ R2_publishAtArg(b) = NoDate

\* lines 923-929
R2_Start ==
  /\ handler = "route2" /\ pc = "start"
  /\ replies' = replies
  /\ IF env["API_KEY"] = ""
       THEN Reply(Response(500, "Missing env: API_KEY", 0))
     ELSE IF header = "none" \/ header # env["API_KEY"]
       THEN Reply(Response(401, "Unauthorized: invalid x-api-key", 0))
     ELSE /\ pc' = "r2_json"
          /\ resp' = resp
  /\ UNCHANGED <<wp, cc, input, output, args, html, handler, env, header, body, now, hid, tries, calls, created, hotel, catId, mediaId>>

\* a fourth candidate search page
R2_candidates_four == <<"textToSearch", "city", "asq", "q">>

\* resolveHotelIdFromKeyword, lines 454-464: the candidate search pages, by
\* the query parameter that carries the keyword
R2_candidates == <<"textToSearch", "city", "asq">>

\* candidates that address the affiliate API instead of the search pages
R2_scrapeCall_api(i) == Call("agoda")

\* resolveHotelIdFromKeyword, line 474: the GET of one candidate search page
R2_scrapeCall(i) == [Call("scrape") EXCEPT !.page = R2_candidates[i]]

\* lines 932-983, with resolveHotelIdFromKeyword or agodaGetHotelById up to
\* the first fetch
R2_Json(b, clock) ==
  /\ handler = "route2" /\ pc = "r2_json"
  /\ replies' = replies
  /\ body' = b
  /\ IF R2_category(b) <= 0
       THEN Reply(Response(400, "Invalid category", 0))
            /\ UNCHANGED <<hid, calls, now, tries>>
     ELSE IF R2_getAgodaAuthError(env) # ""
       THEN Reply(Response(502, R2_getAgodaAuthError(env), 0))
            /\ UNCHANGED <<hid, calls, now, tries>>
     ELSE IF R2_hotelId(b) # ""
       THEN Fetch(Call("agoda"), "r2_agoda")
            /\ hid' = R2_hotelId(b) /\ now' = clock /\ tries' = tries
     ELSE IF R2_keyword(b) = ""
       THEN Reply(Response(400, "Missing required field: keyword", 0))
            /\ UNCHANGED <<hid, calls, now, tries>>
     ELSE Fetch(R2_scrapeCall(1), "r2_scrape")
          /\ hid' = hid /\ now' = clock /\ tries' = 1
  /\ UNCHANGED <<wp, cc, input, output, args, html, handler, env, header, created, hotel, catId, mediaId>>

ScrapeOutcomes == {"found", "noid", "fail500", "neterr"}

\* every successful response ends the search
R2_scrapeFound_anyOk(o) == o \in {"found", "noid"}

\* resolveHotelIdFromKeyword, lines 475-483: the response is a success and
\* its page holds a hotel id
R2_scrapeFound(o) == o = "found"

\* resolveHotelIdFromKeyword, lines 472-488, then lines 972-983
R2_ScrapeReturn(o) ==
  /\ handler = "route2" /\ pc = "r2_scrape"
  /\ replies' = Append(replies, o)
  /\ IF R2_scrapeFound(o)
       THEN Fetch(Call("agoda"), "r2_agoda") /\ hid' = "333" /\ tries' = tries
     ELSE IF tries < Len(R2_candidates)
       THEN Fetch(R2_scrapeCall(tries + 1), "r2_scrape")
            /\ hid' = hid /\ tries' = tries + 1
     ELSE Reply(Response(404, "hotelId not found", 0))
          /\ UNCHANGED <<hid, calls, tries>>
  /\ UNCHANGED <<wp, cc, input, output, args, html, handler, env, header, body, now, created, hotel, catId, mediaId>>

\* agodaGetHotelById after its fetch (lines 523-538), lines 985-1056 and
\* wpCreatePost up to its fetch
R2_AgodaReturn(o, clock) ==
  /\ handler = "route2" /\ pc = "r2_agoda"
  /\ replies' = Append(replies, o)
  /\ IF R2_agodaFailure(o) # NoResp
       THEN Reply(R2_agodaFailure(o)) /\ UNCHANGED <<calls, now, hotel>>
     ELSE /\ hotel' = o
          /\ IF WpMissingEnv(env) # ""
               THEN Reply(Response(502, "Missing env: " \o WpMissingEnv(env), 0))
                    /\ UNCHANGED <<calls, now>>
               ELSE /\ now' = IF R2_readsClock(body) THEN clock ELSE now
                    /\ Fetch(R2_postBody(body, clock), "r2_wp")
  /\ UNCHANGED <<wp, cc, input, output, args, html, handler, env, header, body, hid, tries, created, catId, mediaId>>

\* wpCreatePost after its fetch (lines 903-913), lines 1058-1077
R2_WpReturn(o) ==
  /\ handler = "route2" /\ pc = "r2_wp"
  /\ replies' = Append(replies, o)
  /\ IF o = "ok"
       THEN Reply(Response(200, "", 0)) /\ created' = created + 1
     ELSE IF o = "neterr"
       THEN Reply(Response(502, "fetch failed", 0)) /\ created' = created
     ELSE Reply(Response(502, "WP API failed", HttpStatus(o))) /\ created' = created
  /\ calls' = calls
  /\ UNCHANGED <<wp, cc, input, output, args, html, handler, env, header, body, now, hid, tries, hotel, catId, mediaId>>

\* ================================================ src/unnamed/part_000
\* missing(...keys), lines 3-5, on the keys POST passes at line 364
P0_missing(e) ==
  SelectSeq(<<"WP_URL", "WP_USERNAME", "WP_APP_PASSWORD", "AGODA_SITE_ID",
              "AGODA_API_KEY">>, LAMBDA k : e[k] = "")

\* lines 358-361
P0_Unauthorized(h, e) ==
  e["API_KEY"] = "" \/ (IF h = "none" THEN "" ELSE h) # e["API_KEY"]

\* a keyword that falls back to a text when the body carries none
P0_keyword_default(b) == IF b.keyword = "blank" THEN "" ELSE "text"

\* line 383: String(body.keyword || body.hotelQuery || body.title || "").trim()
P0_keyword(b) ==
  IF b.keyword = "text" THEN "text"
  ELSE IF b.keyword = "blank" THEN ""
  ELSE IF b.alias THEN "text"
  ELSE ""

\* line 373: body.publishType || body.status || "draft", cast but not checked
P0_publishType(b) ==
  IF b.publishType # "absent" THEN b.publishType
  ELSE IF b.status # "absent" THEN b.status
  ELSE "draft"

\* line 435: the date field (NoDate: no field)
P0_postDate(publishType, date) ==
  IF publishType = "future" /\ date # NoDate THEN date ELSE NoDate

\* lines 428-437: the body of the post-creation request
P0_wpPayload(b, categoryId, featuredMediaId) ==
  [PostCall(P0_publishType(b), P0_postDate(P0_publishType(b), b.publishAt),
            categoryId)
     EXCEPT !.media = featuredMediaId]

\* agodaSearch (lines 138-154) and the catch of lines 398-400: the error
\* response an outcome of the affiliate API leads to (NoResp: none)
P0_agodaFailure(o) ==
  IF o = "neterr" THEN Response(502, "Agoda fetch failed", 0)
  ELSE IF HttpStatus(o) # 200 THEN Response(502, "Agoda fetch failed", HttpStatus(o))
  ELSE IF o = "empty" THEN Response(502, "Agoda fetch failed", 0)
  ELSE NoResp

P0_Start ==
  /\ handler = "part0" /\ pc = "start"
  /\ replies' = replies
  /\ IF P0_Unauthorized(header, env)
       THEN Reply(Response(401, "Unauthorized", 0))
     ELSE IF P0_missing(env) # <<>>
       THEN Reply([Response(500, "Missing env vars", 0)
                     EXCEPT !.missing = P0_missing(env)])
     ELSE /\ pc' = "p0_json"
          /\ resp' = resp
  /\ UNCHANGED <<wp, cc, input, output, args, html, handler, env, header, body, now, hid, tries, calls, created, hotel, catId, mediaId>>

\* lines 370-397 and agodaSearch (lines 110-147) up to its fetch
P0_Json(b, clock) ==
  /\ handler = "part0" /\ pc = "p0_json"
  /\ replies' = replies
  /\ body' = b
  /\ IF P0_keyword(b) = ""
       THEN Reply(Response(400, "keyword(hotelQuery) is required", 0))
            /\ UNCHANGED <<hid, calls, now>>
     ELSE /\ now' = clock
          /\ IF P0_missing(env) # <<>>
               THEN Reply(Response(502, "Agoda fetch failed", 0))
                    /\ UNCHANGED <<hid, calls>>
             ELSE IF b.hotelId = "" /\ ~b.cityId
               THEN Reply(Response(502, "Agoda fetch failed", 0))
                    /\ UNCHANGED <<hid, calls>>
             ELSE Fetch(Call("agoda"), "p0_agoda") /\ hid' = b.hotelId
  /\ UNCHANGED <<wp, cc, input, output, args, html, handler, env, header, tries, created, hotel, catId, mediaId>>

\* the post-creation fetch of lines 440-448
P0_FetchPost(categoryId, featuredMediaId) ==
  Fetch(P0_wpPayload(body, categoryId, featuredMediaId), "p0_wp")

\* uploadFeaturedImage up to its first fetch (lines 196-198), else line 440
P0_StartUpload(categoryId) ==
  IF hotel' = "ok"
    THEN Fetch(Call("image"), "p0_image")
    ELSE P0_FetchPost(categoryId, 0)

\* agodaSearch after its fetch (lines 149-165), lines 398-408
P0_AgodaReturn(o) ==
  /\ handler = "part0" /\ pc = "p0_agoda"
  /\ replies' = Append(replies, o)
  /\ IF P0_agodaFailure(o) # NoResp
       THEN Reply(P0_agodaFailure(o)) /\ UNCHANGED <<calls, hotel>>
     ELSE /\ hotel' = o
          /\ IF body.category # "absent"
               THEN Fetch(Call("wp_category_search"), "p0_catsearch")
               ELSE P0_StartUpload(0)
  /\ UNCHANGED <<wp, cc, input, output, args, html, handler, env, header, body, now, hid, tries, created, catId, mediaId>>

\* ensureCategoryId, lines 179-188
P0_CatSearchReturn(o) ==
  /\ handler = "part0" /\ pc = "p0_catsearch"
  /\ replies' = Append(replies, o)
  /\ hotel' = hotel
  /\ IF o = "neterr"
       THEN Reply(Unhandled) /\ UNCHANGED <<calls, catId>>
     ELSE IF o = "found"
       THEN catId' = 7 /\ P0_StartUpload(7)
     ELSE Fetch(Call("wp_category_create"), "p0_catcreate") /\ catId' = catId
  /\ UNCHANGED <<wp, cc, input, output, args, html, handler, env, header, body, now, hid, tries, created, mediaId>>

\* ensureCategoryId, lines 189-191
P0_CatCreateReturn(o) ==
  /\ handler = "part0" /\ pc = "p0_catcreate"
  /\ replies' = Append(replies, o)
  /\ hotel' = hotel
  /\ IF o = "neterr"
       THEN Reply(Unhandled) /\ UNCHANGED <<calls, catId>>
     ELSE IF o = "ok"
       THEN catId' = 8 /\ P0_StartUpload(8)
     ELSE catId' = 0 /\ P0_StartUpload(0)
  /\ UNCHANGED <<wp, cc, input, output, args, html, handler, env, header, body, now, hid, tries, created, mediaId>>

\* uploadFeaturedImage, lines 198-212
P0_ImageReturn(o) ==
  /\ handler = "part0" /\ pc = "p0_image"
  /\ replies' = Append(replies, o)
  /\ IF o = "neterr"
       THEN Reply(Unhandled) /\ calls' = calls
     ELSE IF o = "ok"
       THEN Fetch(Call("wp_media"), "p0_media")
     ELSE P0_FetchPost(catId, 0)
  /\ UNCHANGED <<wp, cc, input, output, args, html, handler, env, header, body, now, hid, tries, created, hotel, catId, mediaId>>

\* uploadFeaturedImage, lines 214-223
P0_MediaReturn(o) ==
  /\ handler = "part0" /\ pc = "p0_media"
  /\ replies' = Append(replies, o)
  /\ IF o = "neterr"
       THEN Reply(Unhandled) /\ UNCHANGED <<calls, mediaId>>
     ELSE IF o = "ok"
       THEN Fetch(Call("wp_media_alt"), "p0_alt") /\ mediaId' = 9
     ELSE P0_FetchPost(catId, 0) /\ mediaId' = 0
  /\ UNCHANGED <<wp, cc, input, output, args, html, handler, env, header, body, now, hid, tries, created, hotel, catId>>

\* uploadFeaturedImage, lines 223-226, then lines 411-448
P0_AltReturn(o) ==
  /\ handler = "part0" /\ pc = "p0_alt"
  /\ replies' = Append(replies, o)
  /\ P0_FetchPost(catId, mediaId)
  /\ UNCHANGED <<wp, cc, input, output, args, html, handler, env, header, body, now, hid, tries, created, hotel, catId, mediaId>>

\* lines 450-467
P0_WpReturn(o) ==
  /\ handler = "part0" /\ pc = "p0_wp"
  /\ replies' = Append(replies, o)
  /\ IF o = "neterr"
       THEN Reply(Unhandled) /\ created' = created
     ELSE IF o = "ok"
       THEN Reply(Response(200, "", 0)) /\ created' = created + 1
     ELSE Reply(Response(502, "WP publish failed", HttpStatus(o)))
          /\ created' = created
  /\ calls' = calls
  /\ UNCHANGED <<wp, cc, input, output, args, html, handler, env, header, body, now, hid, tries, hotel, catId, mediaId>>

\* ------------------------------------------------------------ the system
P0_AgodaOutcomes == AgodaOutcomes \cup {"okNoImage"}
WpReadOutcomes   == {"found", "noid", "neterr"}

Next ==
  \/ R1_Start
  \/ pc = "r1_json" /\ \E b \in Bodies("route1") : R1_Json(b)
  \/ pc = "r1_agoda" /\ \E o \in AgodaOutcomes : R1_AgodaReturn(o)
  \/ pc = "r1_wp" /\ \E o \in WpOutcomes : R1_WpReturn(o)
  \/ R2_Start
  \/ pc = "r2_json" /\ \E b \in Bodies("route2"), c \in Clocks : R2_Json(b, c)
  \/ pc = "r2_scrape" /\ \E o \in ScrapeOutcomes : R2_ScrapeReturn(o)
  \/ pc = "r2_agoda"
       /\ \E o \in AgodaOutcomes, c \in LaterClocks(now) : R2_AgodaReturn(o, c)
  \/ pc = "r2_wp" /\ \E o \in WpOutcomes : R2_WpReturn(o)
  \/ P0_Start
  \/ pc = "p0_json" /\ \E b \in Bodies("part0"), c \in Clocks : P0_Json(b, c)
  \/ pc = "p0_agoda" /\ \E o \in P0_AgodaOutcomes : P0_AgodaReturn(o)
  \/ pc = "p0_catsearch" /\ \E o \in WpReadOutcomes : P0_CatSearchReturn(o)
  \/ pc = "p0_catcreate" /\ \E o \in WpOutcomes : P0_CatCreateReturn(o)
  \/ pc = "p0_image" /\ \E o \in WpOutcomes : P0_ImageReturn(o)
  \/ pc = "p0_media" /\ \E o \in WpOutcomes : P0_MediaReturn(o)
  \/ pc = "p0_alt" /\ \E o \in WpOutcomes : P0_AltReturn(o)
  \/ pc = "p0_wp" /\ \E o \in WpOutcomes : P0_WpReturn(o)
  \/ P1_Start
  \/ pc = "p1_json" /\ \E b \in Bodies("part1"), c \in Clocks : P1_Json(b, c)
  \/ pc = "p1_wp" /\ \E o \in WpOutcomes : P1_WpReturn(o)

Spec == Init /\ [][Next]_vars

TypeOK ==
  /\ handler \in Handlers
  /\ header \in Headers
  /\ pc \in {"start", "done", "r1_json", "r1_agoda", "r1_wp", "r2_json",
             "r2_scrape", "r2_agoda", "r2_wp", "p0_json", "p0_agoda",
             "p0_catsearch", "p0_catcreate", "p0_image", "p0_media", "p0_alt",
             "p0_wp", "p1_json", "p1_wp"}
  /\ tries \in 0..3
  /\ created \in 0..1

\* ================================================= the document builders
\* A second specification studies the builders of the post content: args is
\* the first result of the hotel lookup (in part_001, which makes no lookup,
\* the fields of the body) with the keyword, version and hotel id of the
\* request; each Build step calls the handler's builder on args once more.
\* A document is the sequence of its elements; the fixed Korean text of a
\* template is written as a short English phrase. Names and URLs hold no
\* character that escapeHtml (route.ts:343-350) would change.
MaxBuilds == 2
MaxDraws  == 12

Versions    == {"V1", "V2", "V3", "V4", "random"}
HotelNames  == {"Test Hotel", "Hanoi Inn"}
LandingURLs == {"https://www.agoda.com/landing?hid=222&tag=x"}
ImageURLs   == {"", "https://pix8.agoda.net/1.jpg"}

\* the values successive Math.random() calls return, in hundredths
RandomStreams ==
  {[k \in 1..MaxDraws |-> (a + (k - 1) * d) % 100] :
     a \in {0, 25, 50, 75}, d \in {25, 50}}

BuildArgs(h) ==
  IF h = "part1"
    THEN {[NoArgs EXCEPT !.version = v, !.keyword = "hanoi hotel",
                         !.hotelId = "222", !.hotelName = n] :
            v \in Versions, n \in HotelNames \cup {""}}
    ELSE {[version |-> v, keyword |-> "hanoi hotel", hotelId |-> "222",
           hotelName |-> n, name |-> m, landingURL |-> u, imageURL |-> i] :
            v \in IF h = "route2" THEN {"V3"} ELSE Versions,
            n \in HotelNames,
            m \in IF h = "route1" THEN {"", "Other Name"} ELSE {""},
            u \in LandingURLs, i \in ImageURLs}

\* an element of a document: its tag, its href or src, its text
El(tag, href, text) == [tag |-> tag, href |-> href, text |-> text]

\* ------------------------------------------------- route.ts, first POST
\* normalizeHotel, lines 149-161
R1_normalizeHotel(raw) ==
  [name |-> IF raw.name # "" THEN raw.name
            ELSE IF raw.hotelName # "" THEN raw.hotelName ELSE "Hotel",
   imageURL |-> raw.imageURL]

\* generateAffiliateUrl, lines 168-174
R1_generateAffiliateUrl(hotelId, siteId) ==
  "https://www.agoda.com/partners/partnersearch.aspx?hid=" \o hotelId
    \o "&cid=" \o siteId

\* generatePostHTML, lines 229-236 (no description, address or score)
R1_intro(keyword, hotelRec) ==
  <<El("h2", "", <<keyword, "recommended hotel:", hotelRec.name>>),
    El("p", "", <<hotelRec.name, "booking information">>),
    El("ul", "", <<>>)>>

\* generatePostHTML, lines 180-280
R1_generatePostHTML(keyword, hotelRec, affiliateUrl, version) ==
  LET imageHtml ==
        IF hotelRec.imageURL # ""
          THEN <<El("img", hotelRec.imageURL, <<hotelRec.name>>)>> ELSE <<>>
      ctaHtml == <<El("a", affiliateUrl, <<"check the lowest price">>)>>
      faqSchema ==
        <<El("script", "",
             <<hotelRec.name, "where is it", "see the booking page",
               hotelRec.name, "what is the score", "no information">>)>>
      bodyHtml ==
        CASE version = "V2" ->
               <<El("h3", "", <<"summary of strengths">>),
                 El("ul", "", <<"compare location and reviews",
                                "prices move in high season">>)>>
          [] version = "V3" ->
               <<El("h3", "", <<keyword, "schedule checklist">>),
                 El("ol", "", <<"check-in and check-out", "cancellation",
                                "transport">>)>>
          [] version = "V4" ->
               <<El("h3", "", <<"summary">>),
                 El("p", "", <<hotelRec.name, "book with the button below">>),
                 El("p", "", <<"the FAQ schema is inserted">>)>>
          [] OTHER ->
               <<El("h3", "", <<"conclusion in one line">>),
                 El("p", "", <<hotelRec.name, keyword, "worth considering">>)>>
  IN imageHtml \o R1_intro(keyword, hotelRec) \o bodyHtml \o ctaHtml \o faqSchema

\* POST, lines 35-47: the content built from the first result of the lookup
R1_content(a, e) ==
  R1_generatePostHTML(a.keyword, R1_normalizeHotel(a),
                      R1_generateAffiliateUrl(a.hotelId, e["AGODA_SITE_ID"]),
                      a.version)

\* ---------------------------------------------------- src/unnamed/part_000
\* pick(arr) of route.ts:570-572 and part_000:244: the entry at
\* Math.floor(Math.random() * length), r being Math.random() in hundredths
RandomPick(arr, r) == arr[(r * Len(arr)) \div 100 + 1]

\* a booking link that points to the hotel's image
P0_cta_image(a, label) == El("a", a.imageURL, <<label>>)

\* buildHtml, lines 247-248: the booking link
P0_cta(a, label) == El("a", a.landingURL, <<label>>)

\* a template choice that draws at random whatever the version
P0_version_alwaysRandom(version, r) ==
  RandomPick(<<"V1", "V2", "V3", "V4">>, r)

\* buildHtml, lines 243-245: the template (r is what Math.random() returns)
P0_version(version, r) ==
  IF version = "random"
    THEN RandomPick(<<"V1", "V2", "V3", "V4">>, r) ELSE version

\* buildHtml, lines 230-350
P0_buildHtml(a, imageAlt, r) ==
  LET v == P0_version(a.version, r)
      heroImg == <<El("p", a.imageURL, imageAlt)>>
      quick ==
        <<El("h2", "", <<"key summary">>),
          El("li", "", <<"hotel name:", a.hotelName>>),
          El("li", "", <<"score and stars:", "-", "-">>),
          El("li", "", <<"price:", "-">>),
          P0_cta(a, "check the lowest price now")>>
      schema ==
        <<El("script", "", <<"check-in and check-out times",
                             "free cancellation", "breakfast option">>)>>
  IN CASE v = "V2" ->
            heroImg \o quick \o
            <<El("h2", "", <<a.keyword, "TOP5">>),
              El("li", "", <<a.hotelName, "(recommended)">>),
              El("li", "", <<"alternative A">>),
              El("li", "", <<"alternative B">>),
              El("li", "", <<"alternative C">>),
              El("li", "", <<"alternative D">>),
              P0_cta(a, "book the first of the TOP5"),
              El("h2", "", <<"how to choose">>),
              El("p", "", <<"look at location, reviews and price">>),
              P0_cta(a, "check the room rates again")>> \o schema
       [] v = "V3" ->
            heroImg \o quick \o
            <<El("h2", "", <<"location and transport">>),
              El("p", "", <<a.hotelName, "pick a convenient area first">>),
              P0_cta(a, "book this hotel"),
              El("h2", "", <<"recommendation by purpose">>),
              El("ul", "", <<"business", "couples", "families">>),
              P0_cta(a, "check the available dates")>> \o schema
       [] v = "V4" ->
            heroImg \o quick \o
            <<El("h2", "", <<"frequently asked questions">>),
              El("h3", "", <<"check-in and check-out?">>),
              El("p", "", <<"the booking page is the most accurate">>),
              El("h3", "", <<"cancellation and refund?">>),
              El("p", "", <<"it depends on the rate plan">>),
              El("h3", "", <<"is breakfast worth including?">>),
              El("p", "", <<"convenient on a tight schedule">>),
              P0_cta(a, "check the booking conditions")>> \o schema
       [] OTHER ->
            heroImg \o quick \o
            <<El("h2", "", <<"room condition">>),
              El("p", "", <<a.hotelName, "a fair condition can be expected">>),
              P0_cta(a, "book this hotel"),
              El("h2", "", <<"facilities and breakfast">>),
              El("p", "", <<"they depend on plan and season">>),
              P0_cta(a, "check the promotions"),
              El("h2", "", <<"recommended for">>),
              El("ul", "", <<"value and location", "short trips">>)>> \o schema

\* prepareWpHtml, lines 18-97, on a document of buildHtml: the chunks that
\* start with a heading are kept, the leading image paragraph is wrapped in
\* one more paragraph
P0_prepareWpHtml(doc) ==
  <<[doc[1] EXCEPT !.text = <<"<p>">> \o @ \o <<"</p>">>]>> \o Tail(doc)

\* POST, lines 407-429: the content built from the result of agodaSearch
P0_content(a, r) ==
  P0_prepareWpHtml(P0_buildHtml(a, <<a.hotelName, "room and exterior">>, r))

\* ---------------------------------------------------- src/unnamed/part_001
\* normalizeVersion, lines 40-45 (upper case is not modelled)
P1_normalizeVersion(v) == IF v = "V1" \/ v = "V2" THEN v ELSE "V3"

\* hashSeed, lines 27-31, on the strings of the model: the 32-bit value
P1_hashSeed(str) ==
  CASE str = "hanoi hotel|Test Hotel"            -> -1016323905
    [] str = "hanoi hotel|Hanoi Inn"             -> 56996863
    [] str = "hanoi hotel|Agoda Hotel (hid:222)" -> 1912821751

\* pick(arr, seed), lines 21-25
P1_pick(arr, seed) == arr[((IF seed < 0 THEN -seed ELSE seed) % Len(arr)) + 1]

\* String.prototype.trim on the image URLs
TrimUrl(x) ==
  CASE x = " "             -> ""
    [] x = " u1 "          -> "u1"
    [] OTHER               -> x

\* ensureSize, lines 80-92: the s parameter of a URL that parses is set; a
\* string that does not parse gets its s=<width>x<height> replaced, or is
\* left alone when it holds another "s=", or gets an s parameter appended
P1_ensureSize(url, size) ==
  CASE url = "https://pix8.agoda.net/1.jpg?s=800x600" ->
         "https://pix8.agoda.net/1.jpg?s=" \o size
    [] url = "/img/1.jpg?s=big" -> url
    [] OTHER -> url \o "?s=" \o size

\* pushUnique, lines 97-102
P1_pushUnique(out, u) ==
  IF u = "" \/ TrimUrl(u) = "" THEN out
  ELSE IF \E i \in 1..Len(out) : out[i] = TrimUrl(u) THEN out
  ELSE Append(out, TrimUrl(u))

RECURSIVE P1_pushAll(_, _)
P1_pushAll(out, us) ==
  IF us = <<>> THEN out ELSE P1_pushAll(P1_pushUnique(out, Head(us)), Tail(us))

\* a list that is padded but never cut
P1_padImages_noCut(out) ==
  IF Len(out) = 1 THEN <<out[1], out[1], out[1]>>
  ELSE IF Len(out) = 2 THEN <<out[1], out[2], out[2]>>
  ELSE out

\* buildImageUrls, lines 113-122
P1_padImages(out) ==
  IF Len(out) = 1 THEN <<out[1], out[1], out[1]>>
  ELSE IF Len(out) = 2 THEN <<out[1], out[2], out[2]>>
  ELSE IF Len(out) > 3 THEN SubSeq(out, 1, 3)
  ELSE out

\* buildImageUrls, lines 94-123; isArray: imageUrls is an array
P1_buildImageUrls(imageURL, isArray, imageUrls) ==
  LET fromArray == IF isArray THEN P1_pushAll(<<>>, imageUrls) ELSE <<>>
      sized     == IF imageURL # ""
                     THEN P1_pushAll(fromArray,
                                     <<P1_ensureSize(imageURL, "1200x800"),
                                       P1_ensureSize(imageURL, "1000x750"),
                                       P1_ensureSize(imageURL, "800x600")>>)
                     ELSE fromArray
  IN  P1_padImages(sized)

\* buildHtml, lines 176-418 (no score, city or country in the body); imgs is
\* what buildImageUrls returned (line 204), and an entry it lacks reads
\* "undefined" in the template
P1_buildHtml(version, keyword, hotelName, affiliateUrl, imgs) ==
  LET seed == P1_hashSeed(keyword \o "|" \o hotelName)
      tags == P1_pick(<<"#family #resort #pool", "#couple #honeymoon #ocean",
                        "#value #firstvisit #route", "#kids #facilities #breakfast">>,
                      seed)
      intro == P1_pick(<<<<"the essentials before booking", keyword>>,
                         <<"points often missed", keyword, hotelName>>,
                         <<"where it is matters", keyword, hotelName>>>>, seed)
      why == P1_pick(<<"three reasons", "strengths and weaknesses",
                       "what reviews repeat">>, seed)
      room == P1_pick(<<"room grades", "family rooms", "room condition">>, seed)
      facility == P1_pick(<<"pool and beach", "breakfast", "opening hours">>, seed)
      cta(label) == El("a", affiliateUrl, <<label>>)
      src(k) == IF k <= Len(imgs) THEN imgs[k] ELSE "undefined"
      hero == <<El("img", src(1), <<hotelName, "main image">>)>>
      infoBox ==
        <<El("div", "", <<hotelName, keyword, "see the booking page",
                          "see the booking page", "any date", tags>>)>>
      gallery ==
        <<El("h2", "", <<"room and view images">>),
          El("img", src(2), <<hotelName, "room image">>),
          El("img", src(3), <<hotelName, "view image">>)>>
      checklistHtml ==
        <<El("h2", "", <<"checklist before booking">>),
          El("ul", "", <<"free cancellation", "breakfast", "room type",
                         "season prices", "transfer">>)>>
      faqHtml ==
        <<El("h2", "", <<"frequently asked questions">>),
          El("div", "", <<hotelName, "check-in tips", hotelName, "breakfast",
                          hotelName, "family trip">>)>>
      hashtags ==
        <<El("h2", "", <<"hashtags">>),
          El("p", "", <<"#", keyword, "#stay #resort #family #couple">>)>>
      schemaScript ==
        <<El("script", "", <<hotelName, "check-in tips", hotelName,
                             "breakfast", hotelName, "family trip">>)>>
      longBody ==
        <<El("h1", "", <<keyword, "recommended hotel:", hotelName>>),
          El("p", "", intro), cta("check the lowest price")>>
        \o hero \o infoBox \o
        <<El("h2", "", <<"why is", keyword, "searched so much">>),
          El("p", "", <<why>>),
          El("h2", "", <<"rooms">>), El("p", "", <<room>>),
          El("h2", "", <<"pool, breakfast, facilities">>),
          El("p", "", <<facility>>)>>
        \o gallery \o
        <<El("h2", "", <<"recommended for">>),
          El("ul", "", <<"families", "resort stays", "couples", "facilities">>)>>
        \o checklistHtml \o <<cta("check price and rooms")>> \o faqHtml
        \o <<cta("go to the booking page")>> \o hashtags \o schemaScript
      shortBody ==
        hero \o
        <<El("h2", "", <<keyword, "recommended hotel:", hotelName>>),
          El("p", "", <<"only the essentials">>),
          cta("check the lowest price")>>
        \o infoBox \o checklistHtml \o <<cta("check price and rooms")>>
        \o faqHtml \o hashtags \o schemaScript
  IN IF version = "V3" THEN longBody ELSE shortBody

\* POST, lines 563-601: the content built from the fields of the body
P1_content(a, e) ==
  P1_buildHtml(P1_normalizeVersion(a.version), a.keyword,
               IF a.hotelName # "" THEN a.hotelName
               ELSE "Agoda Hotel (hid:" \o a.hotelId \o ")",
               "https://www.agoda.com/partners/partnersearch.aspx?hid="
                 \o a.hotelId \o "&cid="
                 \o (IF e["AGODA_CID"] # "" THEN e["AGODA_CID"] ELSE "1959499"),
               P1_buildImageUrls(a.imageURL, FALSE, <<>>))

\* ----------------------------------------------- route.ts, second POST
\* buildAffiliateLink, lines 544-567 (the dates of the request are fixed)
R2_buildAffiliateLink(cid, hotelId) ==
  "https://www.agoda.com/partners/partnersearch.aspx?hid=" \o hotelId
    \o "&cid=" \o cid

\* buildHashtags, lines 615-629, on the strings of the model (the result
\* has no city or country)
R2_baseTags(keyword, hotelName) ==
  (IF keyword = "hanoi hotel" THEN <<"#hanoi", "#hotel">> ELSE <<>>)
  \o (CASE hotelName = "Test Hotel" -> <<"#testhotel">>
        [] hotelName = "Hanoi Inn"  -> <<"#hanoiinn">>
        [] OTHER                    -> <<>>)

\* two tags to draw from
R2_extras_two == <<"#hotels", "#stays">>

\* buildHashtags, line 631: the six tags to draw from
R2_extras == <<"#hotels", "#stays", "#family", "#couple", "#value", "#resort">>

\* buildHashtags, lines 631-633: extras are added at random until there are
\* five tags; st is the stream of Math.random(), k its next position. The
\* result holds the tags and the next position (fewer than five tags: the
\* stream ended first).
RECURSIVE R2_addExtras(_, _, _)
R2_addExtras(base, st, k) ==
  IF Len(base) >= 5 \/ k > Len(st) THEN [tags |-> base, k |-> k]
  ELSE LET e == RandomPick(R2_extras, st[k])
       IN R2_addExtras(IF \E i \in 1..Len(base) : base[i] = e
                         THEN base ELSE Append(base, e),
                       st, k + 1)

\* the entries of a sequence without the repetitions of earlier entries
Unique(seq) ==
  LET RECURSIVE U(_, _)
      U(i, acc) ==
        IF i > Len(seq) THEN acc
        ELSE U(i + 1, IF \E j \in 1..Len(acc) : acc[j] = seq[i]
                        THEN acc ELSE Append(acc, seq[i]))
  IN U(1, <<>>)

\* buildHtml, lines 640-802; st is the stream of Math.random(). Line 799:
\* ensureMinLength returns the document unchanged, because the fixed markup
\* of lines 736-796 alone is longer than its 2200 characters.
R2_buildHtml(hotelName, imageURL, affiliateUrl, keyword, st) ==
  LET faqQuestions == <<"breakfast", "pool and facilities", "check-in tips",
                        "what is around">>
      selectedFaq ==
        Unique(<<RandomPick(faqQuestions, st[1]), RandomPick(faqQuestions, st[2])>>)
      imgBlock ==
        IF imageURL # ""
          THEN <<El("img", imageURL,
                    <<hotelName, RandomPick(<<"room view", "hotel view",
                                              "main image", "photo">>, st[3])>>)>>
          ELSE <<>>
      k0 == IF imageURL # "" THEN 4 ELSE 3
      hashtags == R2_addExtras(R2_baseTags(keyword, hotelName), st, k0)
      k1 == hashtags.k
      checklistPool == <<"free cancellation", "room type", "breakfast price",
                         "airport transfer", "season prices", "luggage",
                         "pool hours">>
      uniqueItems ==
        Unique(<<RandomPick(checklistPool, st[k1]),
                 RandomPick(checklistPool, st[k1 + 1]),
                 RandomPick(checklistPool, st[k1 + 2])>>)
      tags == RandomPick(<<"#value #resort #family", "#location #walk #first",
                           "#rest #couple #quiet", "#long #amenities #budget">>,
                         st[k1 + 3])
      intro == RandomPick(<<<<hotelName, keyword, "the points people ask about">>,
                            <<"by your route", hotelName>>,
                            <<"price, reviews, checkpoints", hotelName>>,
                            <<"only the essentials", hotelName>>>>, st[k1 + 4])
      oneLine == RandomPick(<<"worth it if dates and budget fit",
                              "check location first", "good for facilities",
                              "compare dates in high season">>, st[k1 + 5])
      btn(label) == El("a", affiliateUrl, <<label>>)
      basicBox ==
        El("div", "", <<hotelName, keyword, "see the booking page",
                        "see the booking page", "any date", tags,
                        "satisfaction depends on the conditions">>)
  IN imgBlock \o
     <<El("h2", "", <<keyword, "recommended hotel:", hotelName>>),
       El("p", "", intro),
       btn("check the lowest price"),
       basicBox,
       El("h3", "", <<"key summary">>),
       El("p", "", <<oneLine>>),
       El("h3", "", <<"checklist before booking">>),
       El("ul", "", uniqueItems),
       btn("check price and rooms"),
       El("h3", "", <<"frequently asked questions">>),
       El("ul", "", [i \in 1..Len(selectedFaq) |-> hotelName \o " " \o selectedFaq[i]]),
       btn("go to the booking page"),
       El("h3", "", <<"hashtags">>),
       El("p", "", hashtags.tags),
       El("script", "", [i \in 1..Len(selectedFaq) |-> hotelName \o " " \o selectedFaq[i]])>>

\* the Math.random() calls buildHtml makes on a stream (0: the stream ends
\* before buildHashtags has its five tags)
R2_draws(hotelName, imageURL, keyword, st) ==
  LET h == R2_addExtras(R2_baseTags(keyword, hotelName), st,
                        IF imageURL # "" THEN 4 ELSE 3)
  IN IF Len(h.tags) >= 5 /\ h.k + 5 <= Len(st) THEN h.k + 5 ELSE 0

\* POST, lines 955 and 990-1026: the content built from the first result of
\* the lookup ("site" is the site id of AGODA_AUTH)
R2_content(a, e, st) ==
  R2_buildHtml(a.hotelName, a.imageURL,
               R2_buildAffiliateLink(
                 IF e["AGODA_CID"] # "" THEN e["AGODA_CID"] ELSE "site",
                 a.hotelId),
               a.keyword, st)

\* ------------------------------------------------ the builders' system
\* every setting in place
BuildEnv == [v \in EnvVars |-> EnvGood(v)]

InitBuild ==
  /\ handler \in Handlers
  /\ env = BuildEnv
  /\ header = "k1"
  /\ body = NoBody
  /\ now = NoClock
  /\ pc = "build"
  /\ hid = ""
  /\ tries = 0
  /\ calls = <<>>
  /\ replies = <<>>
  /\ created = 0
  /\ hotel = ""
  /\ catId = 0
  /\ mediaId = 0
  /\ resp = NoResp
  /\ args \in BuildArgs(handler)
  /\ html = <<>>
  /\ wp = NoWp
  /\ cc = NoProcs
  /\ input = NoInput
  /\ output = NoInput

R1_Build ==
  /\ handler = "route1" /\ pc = "build" /\ Len(html) < MaxBuilds
  /\ html' = Append(html, R1_content(args, env))
  /\ UNCHANGED <<wp, cc, input, output, args, handler, env, header, body, now, pc, hid, tries, calls,
                 replies, created, hotel, catId, mediaId, resp>>

R2_Build(st) ==
  /\ handler = "route2" /\ pc = "build" /\ Len(html) < MaxBuilds
  /\ R2_draws(args.hotelName, args.imageURL, args.keyword, st) # 0
  /\ html' = Append(html, R2_content(args, env, st))
  /\ UNCHANGED <<wp, cc, input, output, args, handler, env, header, body, now, pc, hid, tries, calls,
                 replies, created, hotel, catId, mediaId, resp>>

P0_Build(r) ==
  /\ handler = "part0" /\ pc = "build" /\ Len(html) < MaxBuilds
  /\ html' = Append(html, P0_content(args, r))
  /\ UNCHANGED <<wp, cc, input, output, args, handler, env, header, body, now, pc, hid, tries, calls,
                 replies, created, hotel, catId, mediaId, resp>>

P1_Build ==
  /\ handler = "part1" /\ pc = "build" /\ Len(html) < MaxBuilds
  /\ html' = Append(html, P1_content(args, env))
  /\ UNCHANGED <<wp, cc, input, output, args, handler, env, header, body, now, pc, hid, tries, calls,
                 replies, created, hotel, catId, mediaId, resp>>

NextBuild ==
  \/ R1_Build
  \/ \E st \in RandomStreams : R2_Build(st)
  \/ \E st \in RandomStreams : P0_Build(st[1])
  \/ P1_Build

SpecBuild == InitBuild /\ [][NextBuild]_vars

\* ============================================ concurrent requests, part_000
\* A third specification runs two part_000 requests side by side against one
\* publishing platform, from POST line 404 on: each has passed the checks of
\* lines 358-400.  The platform answers every request, keeps category names
\* unique (it rejects the creation of a category whose name it already holds)
\* and handles one request at a time, at the moment it answers.
Procs == {1, 2}

CategoryNames == {"", "Hotels", "hotels"}

\* toLowerCase() on the category names
ToLowerCase(n) == IF n = "Hotels" THEN "hotels" ELSE n

\* the platform's categories of that name, letter case aside
WpCategories(name) ==
  {c \in wp.cats : ToLowerCase(c.name) = ToLowerCase(name)}

\* the id the platform gives the next category
WpNextId == 8 + Cardinality({c \in wp.cats : c.id >= 8})

\* the single request is idle
ReqIdle ==
  /\ handler = "part0"
  /\ env = BuildEnv
  /\ header = "k1"
  /\ body = NoBody
  /\ now = NoClock
  /\ pc = "idle"
  /\ hid = ""
  /\ tries = 0
  /\ calls = <<>>
  /\ replies = <<>>
  /\ created = 0
  /\ hotel = ""
  /\ catId = 0
  /\ mediaId = 0
  /\ resp = NoResp
  /\ args = NoArgs
  /\ html = <<>>

InitConcurrent ==
  /\ ReqIdle
  /\ input = NoInput
  /\ output = NoInput
  /\ wp \in {NoWp, [NoWp EXCEPT !.cats = {[id |-> 7, name |-> "Hotels"]}]}
  /\ cc \in [Procs -> {[pc |-> "start", name |-> n, catId |-> 0] :
                        n \in CategoryNames}]

\* POST line 404 and ensureCategoryId up to its first fetch (lines 176-178)
ensureCategoryId_Search(p) ==
  /\ cc[p].pc = "start"
  /\ cc' = [cc EXCEPT ![p].pc = IF cc[p].name = "" THEN "upload"
                                  ELSE "catsearch"]
  /\ UNCHANGED <<reqVars, wp, input, output>>

\* ensureCategoryId, lines 179-188: the list the platform answers with, the
\* match by lower-case name, and the creation request when nothing matches
ensureCategoryId_SearchReturn(p) ==
  /\ cc[p].pc = "catsearch"
  /\ IF WpCategories(cc[p].name) # {}
       THEN cc' = [cc EXCEPT ![p].pc = "upload",
                             ![p].catId =
                               (CHOOSE c \in WpCategories(cc[p].name) : TRUE).id]
       ELSE cc' = [cc EXCEPT ![p].pc = "catcreate"]
  /\ UNCHANGED <<reqVars, wp, input, output>>

\* ensureCategoryId, lines 189-191: the platform creates the category, or
\* rejects the request when it holds the name by now, and null is returned
ensureCategoryId_CreateReturn(p) ==
  /\ cc[p].pc = "catcreate"
  /\ IF WpCategories(cc[p].name) # {}
       THEN /\ cc' = [cc EXCEPT ![p].pc = "upload", ![p].catId = 0]
            /\ wp' = wp
       ELSE /\ cc' = [cc EXCEPT ![p].pc = "upload", ![p].catId = WpNextId]
            /\ wp' = [wp EXCEPT !.cats =
                        @ \cup {[id |-> WpNextId, name |-> cc[p].name]}]
  /\ UNCHANGED <<reqVars, input, output>>

\* POST lines 407-448: uploadFeaturedImage, which touches no category, the
\* payload (categories only when categoryId is set, line 436) and the fetch
uploadFeaturedImage_Return(p) ==
  /\ cc[p].pc = "upload"
  /\ cc' = [cc EXCEPT ![p].pc = "post"]
  /\ UNCHANGED <<reqVars, wp, input, output>>

\* POST lines 450-467: the platform has stored the post
POST_Return(p) ==
  /\ cc[p].pc = "post"
  /\ wp' = [wp EXCEPT !.posts = Append(@, [by |-> p, cat |-> cc[p].catId])]
  /\ cc' = [cc EXCEPT ![p].pc = "done"]
  /\ UNCHANGED <<reqVars, input, output>>

NextConcurrent ==
  \/ \E p \in Procs : ensureCategoryId_Search(p)
  \/ \E p \in Procs : ensureCategoryId_SearchReturn(p)
  \/ \E p \in Procs : ensureCategoryId_CreateReturn(p)
  \/ \E p \in Procs : uploadFeaturedImage_Return(p)
  \/ \E p \in Procs : POST_Return(p)

SpecConcurrent == InitConcurrent /\ [][NextConcurrent]_vars

\* ==================================================== the pure functions
\* A fourth specification applies the pure functions of the handlers to
\* inputs drawn from bounded sets: input holds the arguments, with fn the
\* function and h the variant it belongs to, and output the value returned.

\* ---- the date range of the hotel lookup and of the affiliate link
\* a date is the number of its day; NoDay: the request supplies none
NoDay == -1
SuppliedDays == {5, 40}

\* route.ts getDefaultDates, lines 397-413: the local dates 30 and 31 days on
R2_getDefaultDates(c) ==
  [checkInDate |-> c.day + 30, checkOutDate |-> c.day + 31]

\* route.ts agodaGetHotelById, lines 498-500, and buildAffiliateLink, lines
\* 556-558: each date is the supplied one, or else the default
R2_dateRange(checkInDate, checkOutDate, c) ==
  [checkInDate  |-> IF checkInDate # NoDay THEN checkInDate
                    ELSE R2_getDefaultDates(c).checkInDate,
   checkOutDate |-> IF checkOutDate # NoDay THEN checkOutDate
                    ELSE R2_getDefaultDates(c).checkOutDate]

\* part_001 getDefaultDates, lines 54-62: the local dates 30 and 33 days on
P1_getDefaultDates(c) ==
  [checkInDate |-> c.day + 30, checkOutDate |-> c.day + 33]

\* part_001 POST, lines 529-531
P1_dateRange(checkInDate, checkOutDate, c) ==
  [checkInDate  |-> IF checkInDate # NoDay THEN checkInDate
                    ELSE P1_getDefaultDates(c).checkInDate,
   checkOutDate |-> IF checkOutDate # NoDay THEN checkOutDate
                    ELSE P1_getDefaultDates(c).checkOutDate]

\* part_000 POST, lines 389-392: the UTC dates of the instants 24 and 48
\* hours on
P0_dateRange(checkInDate, checkOutDate, c) ==
  [checkInDate  |-> IF checkInDate # NoDay THEN checkInDate
                    ELSE ToISOString(c).day + 1,
   checkOutDate |-> IF checkOutDate # NoDay THEN checkOutDate
                    ELSE ToISOString(c).day + 2]

DateInputs ==
  [fn : {"dateRange"}, h : {"route2", "part0", "part1"},
   checkInDate : SuppliedDays \cup {NoDay},
   checkOutDate : SuppliedDays \cup {NoDay}, clock : Clocks]

DateRange_Apply ==
  /\ input.fn = "dateRange" /\ output = NoInput
  /\ output' =
       <<CASE input.h = "route2" ->
                R2_dateRange(input.checkInDate, input.checkOutDate, input.clock)
           [] input.h = "part0" ->
                P0_dateRange(input.checkInDate, input.checkOutDate, input.clock)
           [] input.h = "part1" ->
                P1_dateRange(input.checkInDate, input.checkOutDate, input.clock)>>
  /\ UNCHANGED <<reqVars, wp, cc, input>>

\* ---- the slugs
\* A string is the sequence of its characters, each standing for its class:
\* "a" a lower-case ASCII letter, "A" an upper-case one, "1" a digit, "k" a
\* Hangul syllable, " " white space, "-", "'" and "." themselves.
Rep(c, n) == [i \in 1..n |-> c]

\* String.prototype.toLowerCase
LowerChars(str) == [i \in 1..Len(str) |-> IF str[i] = "A" THEN "a" ELSE str[i]]

\* String.prototype.trim
Trim(str) ==
  LET idx == {i \in 1..Len(str) : str[i] # " "} IN
    IF idx = {} THEN <<>>
    ELSE SubSeq(str, CHOOSE i \in idx : \A j \in idx : i <= j,
                     CHOOSE i \in idx : \A j \in idx : i >= j)

\* replace(/c+/g, "c"): every run of c becomes one c
Squeeze(str, c) ==
  LET pairs == [i \in 1..Len(str) |->
                  <<str[i], IF i = 1 THEN "" ELSE str[i - 1]>>]
      kept  == SelectSeq(pairs, LAMBDA q : ~(q[1] = c /\ q[2] = c))
  IN  [i \in 1..Len(kept) |-> kept[i][1]]

\* replace(/^-|-$/g, ""): one dash off each end
StripDash(str) ==
  LET a == IF str # <<>> /\ Head(str) = "-" THEN Tail(str) ELSE str IN
    IF a # <<>> /\ a[Len(a)] = "-" THEN SubSeq(a, 1, Len(a) - 1) ELSE a

\* String.prototype.slice(0, n)
Slice(str, n) == SubSeq(str, 1, IF Len(str) < n THEN Len(str) ELSE n)

\* part_000 slugify, lines 7-15: /[^a-z0-9]+/ and /^-+|-+$/ take whole runs
P0_slugify(str) ==
  LET lower   == Trim(LowerChars(str))
      unquote == SelectSeq(lower, LAMBDA c : c # "'")
      dashed  == [i \in 1..Len(unquote) |->
                    IF unquote[i] \in {"a", "1"} THEN unquote[i] ELSE "-"]
  IN  Slice(StripDash(Squeeze(dashed, "-")), 80)

\* part_000 POST, line 426
P0_slug(slug, hotelName) == IF slug # <<>> THEN slug ELSE P0_slugify(hotelName)

\* route.ts slugify, lines 582-592 (a Hangul syllable stays outside ASCII
\* under NFKD)
R2_slugify(str) ==
  LET lower  == LowerChars(str)
      spaced == [i \in 1..Len(lower) |->
                   IF lower[i] \in {"a", "1", " ", "-"} THEN lower[i] ELSE " "]
      one    == Squeeze(spaced, " ")
      dashed == [i \in 1..Len(one) |-> IF one[i] = " " THEN "-" ELSE one[i]]
  IN  StripDash(Squeeze(dashed, "-"))

\* route.ts POST, lines 1027-1033
R2_autoSlug(slug, cityName, hotelName, keyword, hotelId) ==
  LET base == R2_slugify(cityName \o <<" ">> \o hotelName \o <<" ">> \o keyword)
  IN  IF slug # <<>> THEN slug
      ELSE IF Len(base) >= 10 THEN Slice(base, 70)
      ELSE <<"h", "o", "t", "e", "l", "-">> \o hotelId

\* names of one to three runs of characters
RunLengths == {1, 9, 69, 79, 80}

SlugNames ==
  {Rep(c1, n1) \o Rep(c2, n2) \o Rep(c3, n3) :
     c1 \in {"a", "A", "k"}, n1 \in RunLengths,
     c2 \in {" ", "-", "'", "."}, n2 \in 0..2,
     c3 \in {"a", "k"}, n3 \in {0, 3}}

SlugInputs ==
  [fn : {"slug"}, h : {"part0"}, slug : {<<>>, Rep("a", 4)},
   hotelName : SlugNames]
  \cup
  [fn : {"slug"}, h : {"route2"}, slug : {<<>>, Rep("a", 4)},
   cityName : {<<>>, Rep("k", 2)}, hotelName : SlugNames,
   keyword : {Rep("k", 3), Rep("a", 4)}, hotelId : {Rep("1", 3)}]

Slug_Apply ==
  /\ input.fn = "slug" /\ output = NoInput
  /\ output' =
       <<IF input.h = "part0" THEN P0_slug(input.slug, input.hotelName)
         ELSE R2_autoSlug(input.slug, input.cityName, input.hotelName,
                          input.keyword, input.hotelId)>>
  /\ UNCHANGED <<reqVars, wp, cc, input>>

\* ---- route.ts ensureMinLength
\* A document is the sequence of its pieces, each with the number of its
\* characters; ctx holds the lengths of the names (0: none).
Piece(id, len) == [id |-> id, len |-> len]

RECURSIVE StrLen(_)
StrLen(str) == IF str = <<>> THEN 0 ELSE Head(str).len + StrLen(Tail(str))

\* the "\n\n" before an appended block
Sep == Piece("\n\n", 2)

\* lines 808-822: the four blocks, as long as their text with the names
R2_extraBlocks(ctx) ==
  <<Piece("style", 106 + ctx.hotelName
                     + (IF ctx.cityName > 0 THEN ctx.cityName + 21 ELSE 13)),
    Piece("price", 119 + ctx.keyword),
    Piece("checkin", 136),
    Piece("points", 131 + (IF ctx.countryName > 0 THEN ctx.countryName + 3
                           ELSE 2))>>

\* a loop that only counts the blocks
R2_appendMore_capOnly(out, minChars, i, n) == i < n * 3

\* line 825: the loop condition
R2_appendMore(out, minChars, i, n) == StrLen(out) < minChars /\ i < n * 3

\* lines 824-830: st holds the values of Math.random()
RECURSIVE R2_appendBlocks(_, _, _, _, _)
R2_appendBlocks(out, minChars, blocks, st, i) ==
  IF R2_appendMore(out, minChars, i, Len(blocks))
    THEN R2_appendBlocks(out \o <<Sep, RandomPick(blocks, st[i + 1])>>,
                         minChars, blocks, st, i + 1)
    ELSE out

\* lines 804-831
R2_ensureMinLength(htmlDoc, minChars, ctx, st) ==
  IF StrLen(htmlDoc) >= minChars THEN htmlDoc
  ELSE R2_appendBlocks(htmlDoc, minChars, R2_extraBlocks(ctx), st, 0)

HtmlLengths == {0, 1, 2000, 2199, 2200, 2359}
MinChars    == {0, 2200, 4000}

MinLengthInputs ==
  [fn : {"ensureMinLength"}, h : {"route2"},
   html : {IF n = 0 THEN <<>> ELSE <<Piece("html", n)>> : n \in HtmlLengths},
   minChars : MinChars,
   ctx : {[hotelName |-> 10, keyword |-> 11, cityName |-> c, countryName |-> c]
            : c \in {0, 5}},
   st : RandomStreams]

EnsureMinLength_Apply ==
  /\ input.fn = "ensureMinLength" /\ output = NoInput
  /\ output' = <<R2_ensureMinLength(input.html, input.minChars, input.ctx,
                                    input.st)>>
  /\ UNCHANGED <<reqVars, wp, cc, input>>

\* ---- part_001 buildImageUrls and the images of buildHtml
MaxUrls == 4

\* the entries of imageUrls; imageURL reaches buildHtml trimmed (POST, line
\* 577)
UrlItems ==
  {"", " ", "u1", " u1 ", "u2", "u3", "https://pix8.agoda.net/1.jpg?s=800x600"}

UrlLists == UNION {[1..n -> UrlItems] : n \in 0..MaxUrls}

ImageInputs ==
  [fn : {"buildImageUrls"}, h : {"part1"}, version : {"V2", "V3"},
   imageURL : {"", "https://pix8.agoda.net/1.jpg",
               "https://pix8.agoda.net/1.jpg?s=800x600", "/img/1.jpg?s=big"},
   isArray : {TRUE}, imageUrls : UrlLists]
  \cup
  [fn : {"buildImageUrls"}, h : {"part1"}, version : {"V2", "V3"},
   imageURL : {"", "https://pix8.agoda.net/1.jpg",
               "https://pix8.agoda.net/1.jpg?s=800x600", "/img/1.jpg?s=big"},
   isArray : {FALSE}, imageUrls : {<<>>}]

\* the src of the img elements of a document, in order
ImgSrcs(doc) ==
  LET imgEls == SelectSeq(doc, LAMBDA el : el.tag = "img")
  IN  [i \in 1..Len(imgEls) |-> imgEls[i].href]

\* buildImageUrls, and buildHtml with its result (lines 204, 287-321)
BuildImageUrls_Apply ==
  /\ input.fn = "buildImageUrls" /\ output = NoInput
  /\ LET imgs == P1_buildImageUrls(input.imageURL, input.isArray,
                                   input.imageUrls)
     IN output' =
          <<[imgs |-> imgs,
             srcs |-> ImgSrcs(P1_buildHtml(input.version, "hanoi hotel",
                                           "Test Hotel", "https://agoda", imgs))]>>
  /\ UNCHANGED <<reqVars, wp, cc, input>>

\* ---- the specification
FnInputs == DateInputs \cup SlugInputs \cup MinLengthInputs \cup ImageInputs

InitFn ==
  /\ ReqIdle
  /\ wp = NoWp
  /\ cc = NoProcs
  /\ input \in FnInputs
  /\ output = NoInput

NextFn ==
  \/ DateRange_Apply
  \/ Slug_Apply
  \/ EnsureMinLength_Apply
  \/ BuildImageUrls_Apply

SpecFn == InitFn /\ [][NextFn]_vars

\* ==================================================== route.ts buildHashtags
\* A fifth specification runs buildHashtags draw by draw: input holds its
\* parameters (the keyword as its words), output the Set base in insertion
\* order, the tag drawn last and, once it has returned, the tags returned.

\* Set.prototype.add: insertion order, no second copy
SetAdd(base, t) ==
  IF \E i \in 1..Len(base) : base[i] = t THEN base ELSE Append(base, t)

RECURSIVE SetAddAll(_, _)
SetAddAll(base, ts) ==
  IF ts = <<>> THEN base ELSE SetAddAll(SetAdd(base, Head(ts)), Tail(ts))

\* line 617: the tag of a keyword word, without the characters that are
\* neither Hangul nor ASCII letters or digits
R2_keywordTag(w) == IF w = "!!!" THEN "#" ELSE "#" \o w

\* lines 622-627: the first two words of the lower-case hotel name, joined
R2_hotelTag(hotelName) ==
  CASE hotelName = "Test Hotel"     -> "testhotel"
    [] hotelName = "Hanoi Inn"      -> "hanoiinn"
    [] hotelName = "Grand Hanoi Inn" -> "grandhanoi"
    [] hotelName = "Hotels"         -> "hotels"
    [] OTHER                        -> ""

\* lines 615-629: the tags of the keyword's first two words, of the city, of
\* the country and of the hotel name
R2_hashtagBase(a) ==
  LET kw == SubSeq(a.keyword, 1, IF Len(a.keyword) < 2 THEN Len(a.keyword) ELSE 2)
      t1 == SetAddAll(<<>>, [i \in 1..Len(kw) |-> R2_keywordTag(kw[i])])
      t2 == IF a.cityName # "" THEN SetAdd(t1, "#" \o a.cityName \o "-hotel")
            ELSE t1
      t3 == IF a.countryName # "" THEN SetAdd(t2, "#" \o a.countryName \o "-trip")
            ELSE t2
  IN  IF R2_hotelTag(a.hotelName) # ""
        THEN SetAdd(t3, "#" \o R2_hotelTag(a.hotelName))
        ELSE t3

\* line 633: Array.from(base).slice(0, 6)
R2_hashtagResult(base) == SubSeq(base, 1, IF Len(base) < 6 THEN Len(base) ELSE 6)

TagInputs ==
  [fn : {"buildHashtags"}, h : {"route2"},
   keyword : {<<>>, <<"hanoi">>, <<"hanoi", "hotel">>, <<"hanoi", "hanoi">>,
              <<"hanoi", "hotel", "deal">>, <<"!!!", "hotels">>,
              <<"hotels", "stays">>},
   hotelName : {"", "Test Hotel", "Grand Hanoi Inn", "Hotels"},
   cityName : {"", "Hanoi"}, countryName : {"", "Vietnam"}]

InitTags ==
  /\ ReqIdle
  /\ wp = NoWp
  /\ cc = NoProcs
  /\ input \in TagInputs
  /\ output = NoInput

\* buildHashtags up to the loop, and through it when base holds five tags
BuildHashtags_Start ==
  /\ input.fn = "buildHashtags" /\ output = NoInput
  /\ output' =
       <<[base |-> R2_hashtagBase(input), last |-> "",
          done |-> Len(R2_hashtagBase(input)) >= 5,
          tags |-> IF Len(R2_hashtagBase(input)) >= 5
                     THEN R2_hashtagResult(R2_hashtagBase(input)) ELSE <<>>]>>
  /\ UNCHANGED <<reqVars, wp, cc, input>>

\* one turn of the loop of line 632, pick drawing the tag at position k of
\* extras, and the return of line 633 when base holds five tags by then
BuildHashtags_Pick(k) ==
  /\ input.fn = "buildHashtags" /\ output # NoInput /\ ~output[1].done
  /\ k \in 1..Len(R2_extras)
  /\ LET base == SetAdd(output[1].base, R2_extras[k]) IN
       output' = <<[base |-> base, last |-> R2_extras[k],
                    done |-> Len(base) >= 5,
                    tags |-> IF Len(base) >= 5 THEN R2_hashtagResult(base)
                             ELSE <<>>]>>
  /\ UNCHANGED <<reqVars, wp, cc, input>>

NextTags ==
  \/ BuildHashtags_Start
  \/ \E k \in 1..Len(R2_extras) : BuildHashtags_Pick(k)

\* Math.random() is fair: no tag of extras is left out for ever
FairTags ==
  /\ WF_vars(BuildHashtags_Start)
  /\ \A k \in 1..Len(R2_extras) : WF_vars(BuildHashtags_Pick(k))

SpecTags == InitTags /\ [][NextTags]_vars /\ FairTags

\* ================================================================ claims
ThreeStatuses == {"draft", "publish", "future"}

\* the post-creation requests among the outbound calls
PostCalls == {i \in 1..Len(calls) : calls[i].to = "wp_post"}

\* the request carries the configured shared secret
AuthOK == env["API_KEY"] # "" /\ header = env["API_KEY"]

\* the x-api-key header is absent or is not the value of API_KEY
BadKey == header = "none" \/ header # env["API_KEY"]

\* a required setting of part_000 is missing
P0_EnvIncomplete ==
  \E v \in {"WP_URL", "WP_USERNAME", "WP_APP_PASSWORD", "AGODA_SITE_ID",
            "AGODA_API_KEY"} : env[v] = ""

\* ---------------------------------------------------------------- C1
\* C1 as stated: in route.ts (both handlers) and part_000, a request whose
\* x-api-key is absent or differs from API_KEY is answered 401 and causes
\* no outbound call.
C1_Unauthorized401 ==
  (handler \in {"route1", "route2", "part0"} /\ BadKey)
    => (calls = <<>> /\ (pc = "done" => resp.status = 401))

\* C1 amended: such a request causes no outbound call and is answered 401,
\* except that the second handler of route.ts answers 500 when API_KEY itself
\* is not configured.
C1_UnauthorizedRejected ==
  (handler \in {"route1", "route2", "part0"} /\ BadKey)
    => /\ calls = <<>>
       /\ pc = "done" =>
            resp.status = IF handler = "route2" /\ env["API_KEY"] = ""
                            THEN 500 ELSE 401

C1_Witness ==
  /\ handler = "part0" /\ env["API_KEY"] = "k1" /\ header = "k2"
  /\ pc = "done" /\ resp.status = 401

\* ---------------------------------------------------------------- C2
\* C2: in part_001, under every configuration, only a request whose x-api-key
\* equals a configured API_KEY reaches the post-creation call; every other
\* request is answered 401.
C2_PostOnlyWithKey ==
  handler = "part1"
    => /\ PostCalls # {} => AuthOK
       /\ (pc = "done" /\ ~AuthOK) => resp.status = 401

\* ---------------------------------------------------------------- C3
C3_NoKeywordNoId ==
  /\ body.read /\ body.ok
  /\ body.keyword # "text" /\ ~body.alias
  /\ body.hotelId = "" /\ body.hotelUrl # "hid=111" /\ ~body.cityId

\* C3 as stated: an authenticated request with neither keyword nor hotel
\* identifier is answered 400 without any outbound call, whatever the
\* environment is.
C3_Neither400 ==
  (AuthOK /\ C3_NoKeywordNoId /\ body.hotelUrl = "")
    => (calls = <<>> /\ (pc = "done" => resp.status = 400))

\* the status such a request gets
C3_Status ==
  IF handler = "part0" /\ P0_EnvIncomplete THEN 500
  ELSE IF handler = "route2" /\ env["AGODA_AUTH"] # "site:key"
          /\ body.category # "abc" THEN 502
  ELSE 400

\* C3 amended: such a request causes no outbound call and gets an error
\* response: 400 when the settings the handler reads first are in place, 500
\* from part_000 when one of its five settings is missing (checked before the
\* body is read), 502 from the second handler of route.ts when AGODA_AUTH is
\* missing or malformed.
C3_NeitherRejected ==
  (AuthOK /\ (body.read => C3_NoKeywordNoId))
    => (calls = <<>> /\ (pc = "done" => resp.status = C3_Status))

C3_Witness ==
  /\ handler = "part0" /\ AuthOK /\ C3_NoKeywordNoId
  /\ pc = "done" /\ resp.status = 400

\* ---------------------------------------------------------------- C4
C4_KeywordNoId ==
  /\ body.read /\ body.ok
  /\ body.keyword = "text"
  /\ body.hotelId = "" /\ body.hotelUrl # "hid=111"

C5_IdNoKeyword ==
  /\ body.read /\ body.ok
  /\ body.keyword # "text"
  /\ (body.hotelId # "" \/ body.hotelUrl = "hid=111")

C6_OmittedIsDraft ==
  \A i \in PostCalls : body.publishType = "absent" => calls[i].status = "draft"

\* C6 amended: when the body omits publishType and, in part_000, its alias
\* status as well, the post-creation call has status "draft".
C6_BothOmittedIsDraft ==
  \A i \in PostCalls :
    (body.publishType = "absent" /\ body.status = "absent")
      => calls[i].status = "draft"

C6_Witness ==
  /\ handler = "route2" /\ body.read /\ body.ok /\ body.publishType = "absent"
  /\ PostCalls # {} /\ \A i \in PostCalls : calls[i].status = "draft"

\* ---------------------------------------------------------------- C7
\* the publish status the body supplies
C7_Supplied ==
  IF body.publishType # "absent" THEN body.publishType ELSE body.status

\* C7: the status of the post-creation call is draft, publish or future, and
\* is draft whenever the supplied value is none of the three.
C7_StatusClosed ==
  \A i \in PostCalls :
    /\ calls[i].status \in ThreeStatuses
    /\ C7_Supplied \notin ThreeStatuses => calls[i].status = "draft"

\* ---------------------------------------------------------------- C8
\* C8: a future post without a supplied date is scheduled for the day after
\* the server's current date, at 09:00 server time.
C8_DefaultSchedule ==
  \A i \in PostCalls :
    (body.publishType = "future" /\ body.publishAt = NoDate)
      => /\ now # NoClock /\ calls[i].date # NoDate
         /\ LocalTime(calls[i].date, now.tz) = [day |-> now.day + 1, hour |-> 9]

\* ---------------------------------------------------------------- C9
\* C9: in the second handler of route.ts and in part_001, a future post with
\* a supplied publishAt is scheduled at that value.
C9_SuppliedSchedule ==
  handler \in {"route2", "part1"}
    => \A i \in PostCalls :
         (body.publishType = "future" /\ body.publishAt # NoDate)
           => calls[i].date = body.publishAt

\* --------------------------------------------------------------- C10
FailedLookups ==
  {i \in 1..Len(replies) :
     calls[i].to = "agoda" /\ replies[i] \in {"fail500", "fail429"}}

\* C10: when the affiliate API answers with a non-success status, the
\* handler responds 502, the response carries the upstream status, and no
\* request goes to the publishing platform.
C10_LookupFailure502 ==
  \A i \in FailedLookups :
    /\ pc = "done" /\ resp.status = 502
    /\ resp.upstream = IF replies[i] = "fail500" THEN 500 ELSE 429
    /\ \A j \in 1..Len(calls) : calls[j].to \in {"agoda", "scrape"}

C10_Witness ==
  /\ handler = "route2" /\ FailedLookups # {} /\ pc = "done"
  /\ resp.upstream = 429

\* --------------------------------------------------------------- C11
\* the affiliate API calls answered with success and no usable result
EmptyLookups ==
  {i \in 1..Len(replies) : calls[i].to = "agoda" /\ replies[i] = "empty"}

\* C11: in route.ts (both handlers) and part_000, when the affiliate API
\* answers with success and an empty or missing results list, the handler
\* responds 502 or 404 and no post-creation call is made.
C11_EmptyLookupRejected ==
  \A i \in EmptyLookups :
    /\ pc = "done" /\ resp.status \in {502, 404}
    /\ PostCalls = {}

C11_Witness ==
  /\ handler = "part0" /\ EmptyLookups # {} /\ pc = "done"
  /\ resp.status = 502 /\ Len(calls) = 1

\* --------------------------------------------------------------- C12
\* the post-creation calls answered with a non-success status
FailedPosts ==
  {i \in 1..Len(replies) : calls[i].to = "wp_post" /\ replies[i] = "fail403"}

\* C12: in every handler, when the post-creation call is answered with a
\* non-success status, the handler responds 502 and the response carries
\* the upstream status.
C12_PostFailure502 ==
  \A i \in FailedPosts :
    /\ pc = "done" /\ resp.status = 502
    /\ resp.upstream = HttpStatus(replies[i])

\* --------------------------------------------------------------- C13
\* the settings the claim names, and those of them the handler reads that
\* are missing or empty
RequiredSettings ==
  {"AGODA_SITE_ID", "AGODA_API_KEY", "AGODA_AUTH",
   "WP_URL", "WP_USERNAME", "WP_APP_PASSWORD"}

MissingSettings ==
  {v \in EnvReads(handler) \cap RequiredSettings : env[v] = ""}

\* C13: in every handler, an authenticated request processed while a
\* required setting is missing or empty causes no outbound call, and, unless
\* its body is malformed or fails validation (400), it is answered 500 with
\* a body naming a missing variable.
C13_MissingEnv500 ==
  (AuthOK /\ MissingSettings # {}) =>
    /\ calls = <<>>
    /\ (pc = "done" /\ body.ok /\ resp.status # 400) =>
         /\ resp.status = 500
         /\ \E v \in MissingSettings :
              \/ \E k \in 1..Len(resp.missing) : resp.missing[k] = v
              \/ resp.error = "Missing env: " \o v

\* --------------------------------------------------------------- C14
\* C14: in every handler and for every outcome of the outbound calls, a
\* request ends either with a success response and exactly one post
\* created, or with an error response and no post created; no post exists
\* before the success response. (A post is created when the platform
\* answers the post-creation call with success.)
C14_PostIffSuccess ==
  /\ pc = "done" =>
       \/ resp.status = 200 /\ created = 1 /\ Cardinality(PostCalls) = 1
       \/ resp.status >= 400 /\ created = 0
  /\ created # 0 => pc = "done" /\ resp.status = 200

C14_Witness ==
  /\ handler = "part0" /\ pc = "done" /\ resp.status = 200
  /\ created = 1 /\ Len(calls) = 7

\* --------------------------------------------------------------- C15
\* C15 as stated: a request issues at most two outbound calls, a hotel
\* lookup and then a post creation.
C15_AtMostTwoCalls ==
  /\ Len(calls) <= 2
  /\ \A i \in 1..Len(calls) : calls[i].to \in {"agoda", "wp_post"}
  /\ \A i \in PostCalls : i = Len(calls)

\* the largest number of outbound calls of one request
C15_MaxCalls ==
  CASE handler = "route1" -> 2
    [] handler = "route2" -> 5
    [] handler = "part0"  -> 7
    [] handler = "part1"  -> 1

\* C15 amended: the outbound calls of a request are issued strictly one
\* after the other, the post-creation call is the last of them, and there
\* are at most 2 of them in the first handler of route.ts, 5 in the second
\* (three search pages, the lookup, the post), 7 in part_000 (lookup,
\* category search and creation, image download, media upload, alt text,
\* the post) and 1 in part_001 (the post).
C15_CallsSequential ==
  /\ Len(replies) <= Len(calls) /\ Len(calls) <= Len(replies) + 1
  /\ pc = "done" => Len(calls) = Len(replies)
  /\ Len(calls) <= C15_MaxCalls
  /\ \A i \in PostCalls : i = Len(calls)

C15_Witness ==
  /\ handler = "route2" /\ pc = "done" /\ resp.status = 200
  /\ Len(calls) = 5 /\ Len(replies) = 5 /\ calls[5].to = "wp_post"

\* --------------------------------------------------------------- C16
\* C16: the post-creation call is never issued unless a hotel lookup
\* against the affiliate API was answered with success and a result earlier
\* in the same request.
C16_PostAfterLookup ==
  \A i \in PostCalls :
    \E j \in 1..(i - 1) :
      calls[j].to = "agoda" /\ replies[j] \in {"ok", "okNoImage"}

\* --------------------------------------------------------------- C17
\* the documents built so far for the same inputs are identical
SameDocuments == \A i, j \in 1..Len(html) : html[i] = html[j]

\* C17 as stated: in every handler, the builder called twice with identical
\* inputs and a version other than "random" returns identical HTML.
C17_FixedVersionSameHtml == args.version # "random" => SameDocuments

\* C17 amended: generatePostHTML of route.ts, buildHtml of part_000 with a
\* version other than "random" and buildHtml of part_001 return identical
\* HTML for identical inputs (buildHtml of the second handler of route.ts
\* draws its sentences at random whatever the version).
C17_Deterministic ==
  (handler # "route2" /\ args.version # "random") => SameDocuments

C17_Witness ==
  /\ handler = "part0" /\ args.version = "V2" /\ Len(html) = 2
  /\ html[1] = html[2]

\* --------------------------------------------------------------- C18
Headings == {"h1", "h2", "h3", "h4"}

\* the text of an element contains the string
Contains(el, str) == \E i \in 1..Len(el.text) : el.text[i] = str

\* the document has an anchor with this href
HasAnchor(doc, url) ==
  \E i \in 1..Len(doc) : doc[i].tag = "a" /\ doc[i].href = url

\* the document has a heading whose text contains the string
HasHeading(doc, str) ==
  \E i \in 1..Len(doc) : doc[i].tag \in Headings /\ Contains(doc[i], str)

C19_NoEscapingException ==
  (AuthOK /\ pc = "done") =>
    /\ resp # Unhandled
    /\ resp.status \in {200, 400, 404, 500, 502}
    /\ resp.status # 200 => resp.error # ""

\* --------------------------------------------------------------- C20
\* the calls to the affiliate hotel API
LookupCalls == {i \in 1..Len(calls) : calls[i].to = "agoda"}

\* C20: within one request the affiliate hotel API is called at most once
\* and the post-creation endpoint at most once, whatever the answers; after
\* a failed call to either the handler issues no further call.
C20_NoRepeatedCall ==
  /\ Cardinality(LookupCalls) <= 1
  /\ Cardinality(PostCalls) <= 1
  /\ \A i \in (LookupCalls \cup PostCalls) \cap (1..Len(replies)) :
       replies[i] \in {"fail500", "fail429", "fail403", "neterr", "empty"}
         => Len(calls) = i /\ pc = "done"

C20_Witness ==
  /\ handler = "route2" /\ pc = "done" /\ Len(calls) = 4
  /\ calls[3].to = "agoda" /\ calls[4].to = "wp_post"
  /\ replies[4] = "neterr" /\ resp.status = 502

\* --------------------------------------------------------------- C21
\* C21: in every handler, the categories field of the post-creation call
\* holds exactly one positive integer, which is 1 when the request omits
\* category; a non-numeric or non-positive category is never sent.
C21_OnePositiveCategory ==
  \A i \in PostCalls :
    /\ calls[i].cat > 0
    /\ body.category = "absent" => calls[i].cat = 1

\* --------------------------------------------------------------- C22
\* the search-page requests of resolveHotelIdFromKeyword
ScrapeCalls == {i \in 1..Len(calls) : calls[i].to = "scrape"}

\* C22: in the second POST handler of route.ts the hotel id is that of
\* hotelUrl when it yields one, even if hotelId is supplied too, else
\* hotelId; the search pages are requested only when neither yields an id.
C22_HotelIdPriority ==
  (handler = "route2" /\ body.read) =>
    /\ (body.hotelUrl = "hid=111" /\ LookupCalls # {}) => hid = "111"
    /\ (body.hotelUrl # "hid=111" /\ body.hotelId # "" /\ LookupCalls # {})
         => hid = body.hotelId
    /\ ScrapeCalls # {} => body.hotelUrl # "hid=111" /\ body.hotelId = ""

C22_Witness ==
  /\ handler = "route2" /\ body.hotelUrl = "hid=111" /\ body.hotelId = "222"
  /\ LookupCalls # {} /\ hid = "111"

\* --------------------------------------------------------------- C23
\* the search-page request i got an answer that holds no usable hotel id
ScrapeFailed(i) == i <= Len(replies) /\ replies[i] # "found"

\* C23: resolveHotelIdFromKeyword requests its three candidate search pages
\* in order, at most three, stops at the first success that holds an id, goes
\* on to the next candidate after a non-success status, a thrown fetch or a
\* page without id, and gives up only after all three failed; the handler
\* then responds 404 without calling the affiliate API or creating a post.
C23_ScrapeInOrder ==
  handler = "route2" =>
    /\ Cardinality(ScrapeCalls) <= 3
    /\ \A i \in ScrapeCalls :
         /\ i <= 3 /\ calls[i].page = <<"textToSearch", "city", "asq">>[i]
         /\ (i <= Len(replies) /\ replies[i] = "found")
              => Len(calls) > i /\ calls[i + 1].to = "agoda"
         /\ (ScrapeFailed(i) /\ i < 3)
              => Len(calls) > i /\ calls[i + 1].to = "scrape"
         /\ (ScrapeFailed(i) /\ i = 3)
              => /\ pc = "done" /\ resp.status = 404
                 /\ LookupCalls = {} /\ PostCalls = {}
    /\ resp.status = 404
         => /\ ScrapeCalls = 1..3 /\ \A i \in 1..3 : ScrapeFailed(i)
            /\ Len(calls) = 3

C23_Witness ==
  /\ handler = "route2" /\ pc = "done" /\ resp.status = 404
  /\ replies = <<"fail500", "neterr", "noid">>

\* a later candidate finds the id after a failure and a thrown fetch
C23_WitnessFound ==
  /\ handler = "route2" /\ Len(replies) >= 3
  /\ replies[1] = "neterr" /\ replies[2] = "fail500" /\ replies[3] = "found"
  /\ LookupCalls = {4}

\* --------------------------------------------------------------- C24
\* both requests name the same category, which the platform did not hold
SameNewCategory ==
  /\ cc[1].name # "" /\ ToLowerCase(cc[1].name) = ToLowerCase(cc[2].name)
  /\ \A c \in wp.cats : c.id >= 8

\* C24: in part_000, ensureCategoryId returns the id of a category with the
\* requested name, creating it when absent, also when two requests run
\* concurrently: when both name the same category, not yet existing, it
\* exists once afterwards and both created posts are assigned to it.
C24_CategoryOnceForBoth ==
  /\ \A p \in Procs :
       (cc[p].name # "" /\ cc[p].pc \in {"upload", "post", "done"})
         => cc[p].catId \in {c.id : c \in WpCategories(cc[p].name)}
  /\ (SameNewCategory /\ \A p \in Procs : cc[p].pc = "done")
       => /\ Cardinality(WpCategories(cc[1].name)) = 1
          /\ \A i \in 1..Len(wp.posts) :
               wp.posts[i].cat \in {c.id : c \in WpCategories(cc[1].name)}

\* --------------------------------------------------------------- C25
\* the requests that change the publishing platform
WriteCalls ==
  {i \in 1..Len(calls) :
     calls[i].to \in {"wp_category_create", "wp_media", "wp_media_alt",
                      "wp_post"}}

\* C25: in part_000, whenever POST returns an error response (status 400 or
\* more), no category creation, media upload, alt-text update or post
\* creation has been sent during that request.
C25_ErrorMeansNoWrite ==
  (handler = "part0" /\ pc = "done" /\ resp.status >= 400) => WriteCalls = {}

\* --------------------------------------------------------------- C26
\* the range computed for a request that omits at least one of the dates
DefaultedRange ==
  /\ input.fn = "dateRange" /\ output # NoInput
  /\ input.checkInDate = NoDay \/ input.checkOutDate = NoDay

\* C26: in every variant that uses a date range, whenever the request omits
\* checkInDate, checkOutDate or both, check-in is strictly after the current
\* date (of the server's zone or of UTC) and check-out strictly after
\* check-in.
C26_DefaultRangeValid ==
  DefaultedRange =>
    /\ \/ output[1].checkInDate > input.clock.day
       \/ output[1].checkInDate > ToISOString(input.clock).day
    /\ output[1].checkOutDate > output[1].checkInDate

\* --------------------------------------------------------------- C27
\* the characters a slug may hold: a-z, 0-9 and the dash
SlugChars == {"a", "1", "-", "h", "o", "t", "e", "l"}

\* C27: in the second POST of route.ts and in part_000, the slug sent when
\* the request supplies none is non-empty, holds only a-z, 0-9 and '-', and
\* neither starts nor ends with '-', for every hotel name, city name and
\* keyword.
C27_SlugWellFormed ==
  (input.fn = "slug" /\ input.slug = <<>> /\ output # NoInput) =>
    /\ output[1] # <<>>
    /\ \A i \in 1..Len(output[1]) : output[1][i] \in SlugChars
    /\ output[1][1] # "-" /\ output[1][Len(output[1])] # "-"

\* --------------------------------------------------------------- C28
\* ensureMinLength has returned
MinLengthDone == input.fn = "ensureMinLength" /\ output # NoInput

\* the pieces ensureMinLength put after html
Appended == SubSeq(output[1], Len(input.html) + 1, Len(output[1]))

\* C28: ensureMinLength(html, minChars, ctx) returns html unchanged when it
\* has minChars characters or more; otherwise html followed by appended
\* blocks, no block being appended once minChars is reached and at most 12
\* in all; html is always a prefix of the result.
C28_MinLengthAppends ==
  MinLengthDone =>
    /\ Len(output[1]) >= Len(input.html)
    /\ SubSeq(output[1], 1, Len(input.html)) = input.html
    /\ StrLen(input.html) >= input.minChars => output[1] = input.html
    /\ StrLen(input.html) < input.minChars =>
         /\ Len(Appended) \in {2 * k : k \in 1..12}
         /\ \A j \in 1..Len(Appended) :
              IF j % 2 = 1 THEN Appended[j] = Sep
              ELSE \E k \in 1..4 : Appended[j] = R2_extraBlocks(input.ctx)[k]
         /\ StrLen(SubSeq(output[1], 1, Len(output[1]) - 2)) < input.minChars
         /\ StrLen(output[1]) < input.minChars => Len(Appended) = 24

\* two blocks bring a document of 2000 characters to 2200 or more
C28_Witness ==
  /\ MinLengthDone /\ StrLen(input.html) = 2000 /\ input.minChars = 2200
  /\ Len(Appended) = 4 /\ StrLen(output[1]) >= 2200

\* twelve blocks are appended and minChars is not reached
C28_WitnessCap ==
  /\ MinLengthDone /\ Len(Appended) = 24
  /\ StrLen(output[1]) < input.minChars

\* --------------------------------------------------------------- C29
\* buildHashtags has returned
TagsDone == output # NoInput /\ output[1].done

\* C29: buildHashtags terminates for every keyword, hotel name, city and
\* country under fair random choice, and what it returns is between 5 and 6
\* pairwise distinct tags.
C29_HashtagsTerminate ==
  /\ <>TagsDone
  /\ [](TagsDone =>
          /\ Len(output[1].tags) \in 5..6
          /\ \A i, j \in 1..Len(output[1].tags) :
               i # j => output[1].tags[i] # output[1].tags[j])

\* the keyword's tags are two of the extras, and three more were drawn
C29_Witness ==
  /\ TagsDone /\ input.keyword = <<"hotels", "stays">>
  /\ output[1].last = "#family" /\ Len(output[1].tags) = 5
  /\ output[1].tags[1] = "#hotels"

\* --------------------------------------------------------------- C30
\* the image URLs supplied that are not blank, trimmed, in the order of
\* imageUrls, then the three sizes of imageURL
SuppliedUrls ==
  LET items == IF input.isArray THEN input.imageUrls ELSE <<>>
      sizes == IF input.imageURL # ""
                 THEN <<P1_ensureSize(input.imageURL, "1200x800"),
                        P1_ensureSize(input.imageURL, "1000x750"),
                        P1_ensureSize(input.imageURL, "800x600")>>
                 ELSE <<>>
      all   == items \o sizes
  IN  Unique(SelectSeq([i \in 1..Len(all) |-> TrimUrl(all[i])],
                       LAMBDA x : x # ""))

ImagesDone == input.fn = "buildImageUrls" /\ output # NoInput

\* what buildImageUrls returns: three URLs, the supplied ones cut after the
\* third or padded with the last, when a URL is supplied, and an empty list
\* only when none is
ThreeUrls ==
  /\ SuppliedUrls # <<>> =>
       /\ Len(output[1].imgs) = 3
       /\ \A k \in 1..3 :
            output[1].imgs[k] =
              SuppliedUrls[IF k < Len(SuppliedUrls) THEN k ELSE Len(SuppliedUrls)]
  /\ output[1].imgs = <<>> => SuppliedUrls = <<>>

\* C30 as stated: buildImageUrls returns exactly 3 URLs whenever a non-empty
\* image URL is supplied and an empty list only when none is, and in the
\* supplied case the built HTML has three img elements, each with a defined
\* src.
C30_ThreeImagesAlways ==
  ImagesDone =>
    /\ ThreeUrls
    /\ SuppliedUrls # <<>> => output[1].srcs = output[1].imgs

\* C30, amended: buildImageUrls returns exactly 3 URLs whenever a non-empty
\* image URL is supplied and an empty list only when none is; in the
\* supplied case every img element of the built HTML has a defined src: the
\* three URLs in version V3, the first alone in V1 and V2.
C30_ThreeImages ==
  ImagesDone =>
    /\ ThreeUrls
    /\ SuppliedUrls # <<>> =>
         /\ \A i \in 1..Len(output[1].srcs) : output[1].srcs[i] # "undefined"
         /\ input.version = "V3" => output[1].srcs = output[1].imgs
         /\ input.version # "V3" => output[1].srcs = <<output[1].imgs[1]>>

\* four URLs are supplied, one of them twice, and three are kept
C30_Witness ==
  /\ ImagesDone /\ input.version = "V3"
  /\ input.imageUrls = <<"u1", " u1 ", "u2">>
  /\ input.imageURL = "https://pix8.agoda.net/1.jpg"
  /\ output[1].srcs = <<"u1", "u2", "https://pix8.agoda.net/1.jpg?s=1200x800">>

====
